---- MODULE Spec2Model ----
(***************************************************************************)
(* Model of the jewelry search backend (src/backend): the query analyzer   *)
(* (search_engine/processors/query.py), the three-stage retrieval          *)
(* pipeline (search_engine/search.py), the embedding cache and the         *)
(* start-up of the engine (handlers/embeddings.py, indexing,               *)
(* dependencies.py), recommendations and the HTTP endpoints (routes).      *)
(*                                                                         *)
(* Strings are sequences of one-character strings, so that lower(),        *)
(* split(), the substring test `in` and str.replace() are computed as      *)
(* Python computes them.  Scores are cosine similarities in thousandths.   *)
(***************************************************************************)
EXTENDS Integers, Sequences, FiniteSets, TLC

(***************************************************************************)
(* Bounds of the model.                                                    *)
(***************************************************************************)
MaxWords == 3        \* tokens per generated query
MaxItems == 2        \* images in the index
MaxTopK == 2         \* largest top_k / semantic_top_k a request asks for

(***************************************************************************)
(* Characters and Python string primitives.                                *)
(***************************************************************************)
Alphabet ==
    <<" ", "N", "O", "a", "b", "c", "d", "e", "f", "g", "h", "i", "j", "k",
      "l", "m", "n", "o", "p", "r", "s", "t", "u", "v", "w", "y">>

CodeTable == [c \in {Alphabet[i] : i \in 1..Len(Alphabet)} |->
                 CHOOSE i \in 1..Len(Alphabet) : Alphabet[i] = c]

\* ord(c), up to an order-preserving renumbering
Code(c) == CodeTable[c]

SP == <<" ">>

\* a list built by a comprehension; the elements are computed once, when the
\* list is built
List(f) == f \o <<>>

IsSpace(c) == c = " "

\* str.lower() on one character
LowerChar(c) == IF c = "N" THEN "n" ELSE IF c = "O" THEN "o" ELSE c

\* str.lower()
Lower(s) == List([i \in 1..Len(s) |-> LowerChar(s[i])])

\* position of the first occurrence of sub in s, 0 when there is none (str.find + 1)
Find(s, sub) ==
    LET hits == {i \in 1..(Len(s) - Len(sub) + 1) : SubSeq(s, i, i + Len(sub) - 1) = sub}
    IN  IF hits = {} THEN 0 ELSE CHOOSE i \in hits : \A j \in hits : i <= j

\* the Python test `sub in s`
Contains(s, sub) == Find(s, sub) # 0

RECURSIVE SplitAcc(_, _, _)
SplitAcc(s, cur, acc) ==
    IF s = <<>>
    THEN IF cur = <<>> THEN acc ELSE Append(acc, cur)
    ELSE IF IsSpace(s[1])
         THEN SplitAcc(Tail(s), <<>>, IF cur = <<>> THEN acc ELSE Append(acc, cur))
         ELSE SplitAcc(Tail(s), Append(cur, s[1]), acc)

\* str.split(): split on runs of whitespace, no empty tokens
Split(s) == SplitAcc(s, <<>>, <<>>)

RECURSIVE SplitSep(_, _)
\* str.split(sep): the parts between the occurrences of sep
SplitSep(s, sep) ==
    LET i == Find(s, sep)
    IN  IF i = 0
        THEN <<s>>
        ELSE <<SubSeq(s, 1, i - 1)>> \o SplitSep(SubSeq(s, i + Len(sep), Len(s)), sep)

RECURSIVE Replace(_, _, _)
\* str.replace(old, new): every non-overlapping occurrence, left to right
Replace(s, old, new) ==
    IF Len(s) < Len(old) \/ old = <<>>
    THEN s
    ELSE IF SubSeq(s, 1, Len(old)) = old
         THEN new \o Replace(SubSeq(s, Len(old) + 1, Len(s)), old, new)
         ELSE <<s[1]>> \o Replace(Tail(s), old, new)

RECURSIVE StrLessFrom(_, _, _)
StrLessFrom(a, b, i) ==
    IF i > Len(b) THEN FALSE
    ELSE IF i > Len(a) THEN TRUE
    ELSE IF a[i] = b[i] THEN StrLessFrom(a, b, i + 1)
    ELSE Code(a[i]) < Code(b[i])

\* a < b on Python strings (lexicographic by code point)
StrLess(a, b) == StrLessFrom(a, b, 1)

RECURSIVE InsertSorted(_, _)
InsertSorted(x, s) ==
    IF s = <<>> THEN <<x>>
    ELSE IF StrLess(x, s[1]) THEN <<x>> \o s
    ELSE <<s[1]>> \o InsertSorted(x, Tail(s))

RECURSIVE Ascending(_)
\* the strings of S in ascending order
Ascending(S) ==
    IF S = {} THEN <<>>
    ELSE LET x == CHOOSE y \in S : TRUE
         IN  InsertSorted(x, Ascending(S \ {x}))

Reverse(s) == List([i \in 1..Len(s) |-> s[Len(s) + 1 - i]])

Range(s) == {s[i] : i \in 1..Len(s)}

\* the `x in list` test
InList(x, l) == x \in Range(l)

RECURSIVE Join(_)
\* " ".join(words)
Join(ws) ==
    IF ws = <<>> THEN <<>>
    ELSE IF Len(ws) = 1 THEN ws[1]
    ELSE ws[1] \o SP \o Join(Tail(ws))

(***************************************************************************)
(* String literals of the source, as character sequences.                  *)
(***************************************************************************)
W_no == <<"n", "o">>
W_without == <<"w", "i", "t", "h", "o", "u", "t">>
W_with == <<"w", "i", "t", "h">>
W_ring == <<"r", "i", "n", "g">>
W_necklace == <<"n", "e", "c", "k", "l", "a", "c", "e">>
W_stones == <<"s", "t", "o", "n", "e", "s">>
W_stone == <<"s", "t", "o", "n", "e">>
W_diamonds == <<"d", "i", "a", "m", "o", "n", "d", "s">>
W_rings == <<"r", "i", "n", "g", "s">>
W_plain == <<"p", "l", "a", "i", "n">>
W_simple == <<"s", "i", "m", "p", "l", "e">>
W_minimalist == <<"m", "i", "n", "i", "m", "a", "l", "i", "s", "t">>
W_smooth == <<"s", "m", "o", "o", "t", "h">>
W_featuring == <<"f", "e", "a", "t", "u", "r", "i", "n", "g">>
W_on == <<"o", "n">>
W_set == <<"s", "e", "t">>
W_jeweled == <<"j", "e", "w", "e", "l", "e", "d">>
W_sparkly == <<"s", "p", "a", "r", "k", "l", "y">>
W_gems == <<"g", "e", "m", "s">>
W_pendant == <<"p", "e", "n", "d", "a", "n", "t">>
W_charm == <<"c", "h", "a", "r", "m">>
W_pattern == <<"p", "a", "t", "t", "e", "r", "n">>
W_design == <<"d", "e", "s", "i", "g", "n">>
W_engraving == <<"e", "n", "g", "r", "a", "v", "i", "n", "g">>
W_patterned == <<"p", "a", "t", "t", "e", "r", "n", "e", "d">>
W_engraved == <<"e", "n", "g", "r", "a", "v", "e", "d">>
W_ornate == <<"o", "r", "n", "a", "t", "e">>
W_gold == <<"g", "o", "l", "d">>
W_band == <<"b", "a", "n", "d">>
W_metal == <<"m", "e", "t", "a", "l">>
W_wedding == <<"w", "e", "d", "d", "i", "n", "g">>
W_chain == <<"c", "h", "a", "i", "n">>
W_basic == <<"b", "a", "s", "i", "c">>
W_jewelry == <<"j", "e", "w", "e", "l", "r", "y">>
W_diamond == <<"d", "i", "a", "m", "o", "n", "d">>
W_gem == <<"g", "e", "m">>
W_a == <<"a">>
W_and == <<"a", "n", "d">>
W_cost == <<"c", "o", "s", "t">>
W_piano == <<"p", "i", "a", "n", "o">>
W_NO == <<"N", "O">>
W_ON == <<"O", "N">>
W_Necklace == <<"N", "e", "c", "k", "l", "a", "c", "e">>

\* the text of the words joined by single spaces
Phrase(ws) == Join(ws)

(***************************************************************************)
(* list(set(xs)): the iteration order of a Python set of strings depends   *)
(* on the process's string-hash seed (PYTHONHASHSEED is random per         *)
(* process), so it is fixed within one process and may differ in the next. *)
(***************************************************************************)
HashSeeds == {0, 1}

ListOfSet(S, seed) == IF seed = 0 THEN Ascending(S) ELSE Reverse(Ascending(S))

(***************************************************************************)
(* QueryProcessor (search_engine/processors/query.py).  cats is            *)
(* self.categories.                                                        *)
(***************************************************************************)
\* [x for x in l if keep(x)], order kept
RECURSIVE FilterSeq(_, _)
FilterSeq(l, S) ==
    IF l = <<>> THEN <<>>
    ELSE IF l[1] \in S THEN <<l[1]>> \o FilterSeq(Tail(l), S)
    ELSE FilterSeq(Tail(l), S)

\* the category names looked up in the query as typed
extract_categories_KeepsCase(cats, query) ==
    LET found == FilterSeq(cats, {c \in Range(cats) : Contains(query, c)})
    IN  IF found # <<>> THEN found ELSE cats

extract_categories(cats, query) ==
    LET q == Lower(query)
        found == FilterSeq(cats, {c \in Range(cats) : Contains(q, c)})
    IN  IF found # <<>> THEN found ELSE cats

\* the "no X" scan without the test against the known categories
RECURSIVE NoPattern_KeepsCategories(_, _, _)
NoPattern_KeepsCategories(cats, words, i) ==
    IF i > Len(words) THEN <<>>
    ELSE IF words[i] = W_no /\ i + 1 <= Len(words)
         THEN <<words[i + 1]>> \o NoPattern_KeepsCategories(cats, words, i + 1)
         ELSE NoPattern_KeepsCategories(cats, words, i + 1)

\* the "no X" pattern: the token after each token "no", unless it is a category
RECURSIVE NoPattern(_, _, _)
NoPattern(cats, words, i) ==
    IF i > Len(words) THEN <<>>
    ELSE IF words[i] = W_no /\ i + 1 <= Len(words) /\ ~InList(words[i + 1], cats)
         THEN <<words[i + 1]>> \o NoPattern(cats, words, i + 1)
         ELSE NoPattern(cats, words, i + 1)

\* the "without X" pattern: the first token of the text after the first "without"
WithoutPattern(cats, q) ==
    IF Contains(q, W_without)
    THEN LET parts == SplitSep(q, W_without)
         IN  IF Len(parts) > 1
             THEN LET after_without == Split(parts[2])
                  IN  IF after_without # <<>> /\ ~InList(after_without[1], cats)
                      THEN <<after_without[1]>>
                      ELSE <<>>
             ELSE <<>>
    ELSE <<>>

extract_negations(cats, query, seed) ==
    LET q == Lower(query)
        negations == NoPattern(cats, Split(q), 1) \o WithoutPattern(cats, q)
    IN  ListOfSet(Range(negations), seed)

\* the phrases generated for one negated term
DecorationTermsOf(category, neg) ==
    {category \o SP \o W_with \o SP \o neg,
     neg \o SP \o category,
     category \o SP \o W_featuring \o SP \o neg,
     neg \o <<"s">> \o SP \o W_on \o SP \o category,
     category \o SP \o W_set \o SP \o W_with \o SP \o neg \o <<"s">>}
    \cup (IF Contains(neg, W_diamond) \/ Contains(neg, W_stone) \/ Contains(neg, W_gem)
          THEN {W_jeweled \o SP \o category, W_sparkly \o SP \o category,
                category \o SP \o W_with \o SP \o W_stones,
                category \o SP \o W_with \o SP \o W_gems}
          ELSE {})
    \cup (IF Contains(neg, W_pendant) \/ Contains(neg, W_charm)
          THEN {category \o SP \o W_with \o SP \o W_pendant,
                category \o SP \o W_with \o SP \o W_charm,
                W_pendant \o SP \o category, W_charm \o SP \o category}
          ELSE {})
    \cup (IF Contains(neg, W_pattern) \/ Contains(neg, W_design) \/ Contains(neg, W_engraving)
          THEN {W_patterned \o SP \o category, W_engraved \o SP \o category,
                W_ornate \o SP \o category,
                category \o SP \o W_with \o SP \o W_design}
          ELSE {})

get_decoration_terms(category, negations, seed) ==
    ListOfSet(UNION {DecorationTermsOf(category, negations[i]) : i \in 1..Len(negations)}, seed)

get_plain_terms(category) ==
    IF category = W_ring
    THEN <<Phrase(<<W_plain, W_gold, W_ring>>), Phrase(<<W_simple, W_ring, W_band>>),
           Phrase(<<W_smooth, W_metal, W_ring>>), Phrase(<<W_minimalist, W_ring>>),
           Phrase(<<W_wedding, W_band>>), Phrase(<<W_plain, W_ring>>)>>
    ELSE IF category = W_necklace
    THEN <<Phrase(<<W_plain, W_gold, W_necklace>>), Phrase(<<W_simple, W_chain, W_necklace>>),
           Phrase(<<W_minimalist, W_necklace>>), Phrase(<<W_basic, W_necklace, W_chain>>),
           Phrase(<<W_smooth, W_necklace>>)>>
    ELSE <<Phrase(<<W_plain, W_simple, category>>)>>

\* the two replacements with their replacement texts exchanged
ReplaceNegation_Swapped(enhanced, neg) ==
    LET e1 == Replace(enhanced, W_no \o SP \o neg, Phrase(<<W_minimalist, W_smooth>>))
    IN  Replace(e1, W_without \o SP \o neg, Phrase(<<W_plain, W_simple>>))

\* the body of `for neg in negations`
ReplaceNegation(enhanced, neg) ==
    LET e1 == Replace(enhanced, W_no \o SP \o neg, Phrase(<<W_plain, W_simple>>))
    IN  Replace(e1, W_without \o SP \o neg, Phrase(<<W_minimalist, W_smooth>>))

RECURSIVE EnhanceLoop(_, _)
EnhanceLoop(enhanced, negations) ==
    IF negations = <<>> THEN enhanced
    ELSE EnhanceLoop(ReplaceNegation(enhanced, negations[1]), Tail(negations))

\* the rewriting applied to the query as typed
enhance_query_KeepsCase(query, category, negations) ==
    EnhanceLoop(query, negations)

enhance_query(query, category, negations) ==
    EnhanceLoop(Lower(query), negations)

\* the category of the probe terms taken from the end of the list
FirstCategory_Last(filter_categories) ==
    IF filter_categories # <<>> THEN filter_categories[Len(filter_categories)] ELSE W_jewelry

\* search.py: category = filter_categories[0] if filter_categories else "jewelry"
FirstCategory(filter_categories) ==
    IF filter_categories # <<>> THEN filter_categories[1] ELSE W_jewelry

(***************************************************************************)
(* The embedding provider (CLIP) and cosine similarity.  The model is an   *)
(* external collaborator: a deterministic function from a text to a unit   *)
(* vector.  Unit vectors are abstracted to eight directions 45 degrees     *)
(* apart; a text's direction is a hash of its characters.  Similarities    *)
(* are in thousandths.                                                     *)
(***************************************************************************)
Dirs == 0..7

RECURSIVE TextHash(_, _, _)
TextHash(text, i, h) ==
    IF i > Len(text) THEN h
    ELSE TextHash(text, i + 1, (h * 3 + Code(text[i])) % Cardinality(Dirs))

\* EmbeddingHandler.embed_text: the unit vector of a text
embed_text(text) == TextHash(text, 1, 0)

\* cosine of k * 45 degrees, k = 0..4
CosTable == <<1000, 707, 0, -707, -1000>>

\* dot product of two unit vectors
Cos(u, v) ==
    LET d == IF u >= v THEN u - v ELSE v - u
        k == IF d > 4 THEN Cardinality(Dirs) - d ELSE d
    IN  CosTable[k + 1]

Max(S) == CHOOSE x \in S : \A y \in S : y <= x

\* (embeddings @ img_emb.T).squeeze().max().item()
MaxSim(embeddings, img_emb) ==
    Max({Cos(embeddings[i], img_emb) : i \in 1..Len(embeddings)})

\* sorted(s, key=Key, reverse=True): descending, equal keys keep their order
StableSortDesc(s, keys) ==
    LET n == Len(s)
        pos(i) == Cardinality({j \in 1..n :
                      \/ keys[j] > keys[i]
                      \/ (keys[j] = keys[i] /\ j < i)}) + 1
    IN  List([k \in 1..n |-> s[CHOOSE i \in 1..n : pos(i) = k]])

\* the Python slice s[:k]
SliceTo(s, k) ==
    IF k >= 0
    THEN SubSeq(s, 1, IF k < Len(s) THEN k ELSE Len(s))
    ELSE SubSeq(s, 1, IF Len(s) + k > 0 THEN Len(s) + k ELSE 0)

(***************************************************************************)
(* The vector index (Qdrant, in memory).  idx is the sequence of indexed   *)
(* items; the item at position i has id i - 1 (builder.py).                *)
(***************************************************************************)
\* client.search(query_vector, limit, with_vectors=True): the limit nearest
\* points by cosine similarity, best first
client_search(idx, query_vector, limit) ==
    LET points == List([i \in 1..Len(idx) |->
                     [id |-> i - 1,
                      score |-> Cos(query_vector, idx[i].vec),
                      category |-> idx[i].category,
                      vector |-> idx[i].vec]])
        scores == List([i \in 1..Len(points) |-> points[i].score])
    IN  SliceTo(StableSortDesc(points, scores), limit)

(***************************************************************************)
(* search (search_engine/search.py).                                       *)
(***************************************************************************)
\* Optional[float]: None is <<>>, a value v is <<v>>
None == <<>>
Some(v) == <<v>>

\* stage 2 letting every candidate through
CategoryFilter_PassAll(points, filter_categories) == points

\* stage 2: [p for p in filtered_points if p.payload["category"] in filter_categories]
CategoryFilter(points, filter_categories) ==
    LET Keep(p) == InList(p.category, filter_categories)
    IN  SelectSeq(points, Keep)

\* probe terms built for every request
ProbeTermsNeeded_Always(negations) == TRUE

\* the probe terms are built and embedded: `if negations:`
ProbeTermsNeeded(negations) == negations # <<>>

\* stage 3 runs: `if negations and decoration_embeddings is not None and ...`
Stage3Runs(negations) == negations # <<>>

\* the threshold test with both comparisons inclusive
PassesThresholds_Inclusive(max_decoration, max_plain, max_decoration_score, min_plain_score) ==
    max_decoration <= max_decoration_score /\ max_plain >= min_plain_score

\* the test that lets a candidate through stage 3
PassesThresholds(max_decoration, max_plain, max_decoration_score, min_plain_score) ==
    max_decoration < max_decoration_score /\ max_plain > min_plain_score

\* the loop of stage 3: each candidate with its max_plain and max_decoration
ScoreCandidates(points, decoration_embeddings, plain_embeddings) ==
    List([i \in 1..Len(points) |->
        [p |-> points[i],
         plain |-> MaxSim(plain_embeddings, points[i].vector),
         deco |-> MaxSim(decoration_embeddings, points[i].vector)]])

\* the surviving candidates left in stage-1 order
SortByPlain_KeepsOrder(passed_images) == passed_images

\* sorted(passed_images, key=lambda x: x[1], reverse=True)
SortByPlain(passed_images) ==
    LET plains == List([i \in 1..Len(passed_images) |-> passed_images[i].plain])
    IN  StableSortDesc(passed_images, plains)

\* the candidates returned without truncation
Truncate_All(filtered_points, top_k) == filtered_points

\* filtered_points[:top_k]
Truncate(filtered_points, top_k) == SliceTo(filtered_points, top_k)

FormatResult(x) ==
    [id |-> x.p.id,
     category |-> x.p.category,
     similarity_score |-> x.p.score,
     plain_score |-> x.plain,
     decoration_score |-> x.deco]

\* the calls of embed_text made for one argument: batch_embed_texts calls it
\* once per text
EmbedCalls(via, arg, texts) ==
    List([i \in 1..Len(texts) |-> [via |-> via, arg |-> arg, text |-> texts[i]]])

\* search(), up to the index query: the query's components, the enhanced
\* query and the embeddings of the query and of the probe terms
Prepare(cats, seed, query_text, explicit) ==
    LET filter_categories == IF explicit # <<>> THEN explicit
                             ELSE extract_categories(cats, query_text)
        negations == extract_negations(cats, query_text, seed)
        category == FirstCategory(filter_categories)
        enhanced_query == enhance_query(query_text, category, negations)
        decoration_terms == IF ProbeTermsNeeded(negations)
                            THEN get_decoration_terms(category, negations, seed) ELSE <<>>
        plain_terms == IF ProbeTermsNeeded(negations) THEN get_plain_terms(category) ELSE <<>>
    IN  [filter_categories |-> filter_categories,
         negations |-> negations,
         category |-> category,
         enhanced_query |-> enhanced_query,
         query_embedding |-> embed_text(enhanced_query),
         decoration_terms |-> decoration_terms,
         plain_terms |-> plain_terms,
         decoration_embeddings |->
             List([i \in 1..Len(decoration_terms) |-> embed_text(decoration_terms[i])]),
         plain_embeddings |->
             List([i \in 1..Len(plain_terms) |-> embed_text(plain_terms[i])])]

\* search(), from the index query to the return: the response, the request's
\* local lists and the calls made to the embedding provider
Retrieve(idx, r, pre) ==
    LET filter_categories == pre.filter_categories
        negations == pre.negations
        semantic_points == client_search(idx, pre.query_embedding, r.semantic_top_k)
        category_points == IF filter_categories # <<>>
                           THEN CategoryFilter(semantic_points, filter_categories)
                           ELSE semantic_points
        scored == IF Stage3Runs(negations)
                  THEN ScoreCandidates(category_points, pre.decoration_embeddings,
                                       pre.plain_embeddings)
                  ELSE <<>>
        Passes(x) == PassesThresholds(x.deco, x.plain, r.max_decoration_score, r.min_plain_score)
        WithScores(x) == [p |-> x.p, plain |-> Some(x.plain), deco |-> Some(x.deco)]
        passed_images == SortByPlain(SelectSeq(scored, Passes))
        filtered_points == IF Stage3Runs(negations)
                           THEN List([i \in 1..Len(passed_images) |->
                                         WithScores(passed_images[i])])
                           ELSE List([i \in 1..Len(category_points) |->
                                   [p |-> category_points[i], plain |-> None, deco |-> None]])
        shown == Truncate(filtered_points, r.top_k)
        results == List([i \in 1..Len(shown) |-> FormatResult(shown[i])])
        filter_stats ==
            [semantic_matches |-> Len(semantic_points),
             category_filtered |-> IF filter_categories # <<>> THEN Len(category_points) ELSE 0,
             negation_filtered |-> IF Stage3Runs(negations) THEN Len(filtered_points) ELSE 0,
             final_results |-> Len(results)]
    IN  [response |->
            [query |-> r.query,
             enhanced_query |-> pre.enhanced_query,
             categories |-> filter_categories,
             negations |-> negations,
             results |-> results,
             total_results |-> Len(results),
             filter_stats |-> filter_stats],
         locals |->
            [semantic_points |-> semantic_points,
             category_points |-> category_points,
             stage3_ran |-> Stage3Runs(negations),
             scored |-> scored,
             filtered_points |-> filtered_points],
         calls |->
            EmbedCalls("embed_text", "enhanced_query", <<pre.enhanced_query>>)
            \o EmbedCalls("batch_embed_texts", "decoration_terms", pre.decoration_terms)
            \o EmbedCalls("batch_embed_texts", "plain_terms", pre.plain_terms)]

(***************************************************************************)
(* The embedding cache (search_engine/handlers/embeddings.py).             *)
(***************************************************************************)
\* model_name of the engine
DefaultModelName == <<"c", "l", "i", "p">>

\* sorted(set(l)): repeated paths are dropped
SortedList_Unique(l) == Ascending(Range(l))

RECURSIVE SortedList(_)
\* sorted(l) on a list of strings
SortedList(l) ==
    IF l = <<>> THEN <<>> ELSE InsertSorted(l[1], SortedList(Tail(l)))

RECURSIVE JoinWith(_, _)
\* sep.join(ws)
JoinWith(sep, ws) ==
    IF ws = <<>> THEN <<>>
    ELSE IF Len(ws) = 1 THEN ws[1]
    ELSE ws[1] \o sep \o JoinWith(sep, Tail(ws))

\* hashlib.md5(s).hexdigest(): a digest determined by s; digests of different
\* strings are taken to differ
Md5Hex(s) == [md5 |-> s]

\* the cache key built from the model name alone
get_cache_key_ModelOnly(model_name, image_paths) ==
    Md5Hex(model_name \o <<"_">>)

\* the cache key built from the paths in the order they are given
get_cache_key_KeepsOrder(model_name, image_paths) ==
    Md5Hex(model_name \o <<"_">> \o JoinWith(<<"|">>, image_paths))

get_cache_key(model_name, image_paths) ==
    LET paths_str == JoinWith(<<"|">>, SortedList(image_paths))
        key_str == model_name \o <<"_">> \o paths_str
    IN  Md5Hex(key_str)

\* os.path.join(cache_dir, f"embeddings_{cache_key}.pkl")
CacheFile(cache_key) == <<"embeddings_", cache_key, ".pkl">>

\* pickle.dump(embeddings): the number of rows, then the rows
PickleDump(embeddings) == <<Len(embeddings)>> \o embeddings

\* pickle.load: the rows of a complete stream; None stands for the exception
\* raised on a truncated or empty one
PickleLoad(bytes) ==
    IF bytes # <<>> /\ Len(bytes) = bytes[1] + 1 THEN Some(Tail(bytes)) ELSE None

\* the content of a file that open() cannot read (no permission)
Unreadable == <<-1>>

\* load_embeddings_cache: the cached rows if the file exists, can be opened
\* and unpickled and holds as many rows as there are paths; None otherwise
\* (the exceptions of open() and pickle.load are caught)
load_embeddings_cache(files, model_name, image_paths) ==
    LET cache_file == CacheFile(get_cache_key(model_name, image_paths))
    IN  IF cache_file \in DOMAIN files /\ files[cache_file] # Unreadable
        THEN LET cached_data == PickleLoad(files[cache_file])
             IN  IF cached_data # None /\ Len(cached_data[1]) = Len(image_paths)
                 THEN cached_data
                 ELSE None
        ELSE None

\* how a write of the cache file can end: the file is written; open() fails
\* and the directory is left as it was; pickle.dump fails and leaves a
\* truncated file.  The two failures are caught and only printed.
WriteOutcomes == {"written", "open_failed", "dump_failed"}

\* the cache directory after save_embeddings_cache
save_embeddings_cache(files, model_name, embeddings, image_paths, outcome) ==
    LET cache_file == CacheFile(get_cache_key(model_name, image_paths))
        stream == PickleDump(embeddings)
        bytes == IF outcome = "written" THEN stream
                 ELSE SubSeq(stream, 1, Len(stream) - 1)
    IN  IF outcome = "open_failed" THEN files
        ELSE [f \in DOMAIN files \cup {cache_file} |->
                 IF f = cache_file THEN bytes ELSE files[f]]

(***************************************************************************)
(* The dataset on disk and its loading (search_engine/indexing).           *)
(***************************************************************************)
\* the image files that can be in the dataset, with the direction of the
\* embedding CLIP gives each
ImageFiles ==
    {[category |-> W_ring, name |-> <<"a", ".", "j", "p", "g">>, vec |-> 0],
     [category |-> W_ring, name |-> <<"b", ".", "p", "n", "g">>, vec |-> 1],
     [category |-> W_necklace, name |-> <<"c", ".", "j", "p", "e", "g">>, vec |-> 4]}

\* a file of the ring directory that is no image
OtherFiles ==
    {[category |-> W_ring, name |-> <<"n", "o", "t", "e", "s", ".", "t", "x", "t">>, vec |-> 0]}

\* str.endswith
EndsWith(s, suffix) ==
    Len(s) >= Len(suffix) /\ SubSeq(s, Len(s) - Len(suffix) + 1, Len(s)) = suffix

\* f.lower().endswith((".jpg", ".jpeg", ".png"))
IsImageName(f) ==
    \/ EndsWith(Lower(f), <<".", "j", "p", "g">>)
    \/ EndsWith(Lower(f), <<".", "j", "p", "e", "g">>)
    \/ EndsWith(Lower(f), <<".", "p", "n", "g">>)

\* os.path.join(cat_dir, f), relative to the image directory
PathOf(category, f) == category \o <<"/">> \o f

\* os.listdir(cat_dir): the names in the directory, in an arbitrary order
DirListings(files, category) ==
    LET names == {f.name : f \in {g \in files : g.category = category}}
    IN  {l \in [1..Cardinality(names) -> names] : Range(l) = names}

\* the image files of one listing, as (path, category) pairs
ImagesOfListing(category, listing) ==
    LET Image(f) == IsImageName(f)
        images == SelectSeq(listing, Image)
    IN  List([i \in 1..Len(images) |->
                [path |-> PathOf(category, images[i]), category |-> category]])

RECURSIVE LoadedImages(_, _)
\* load_images: the loop over engine.categories
LoadedImages(cats, listing) ==
    IF cats = <<>> THEN <<>>
    ELSE ImagesOfListing(cats[1], listing[cats[1]]) \o LoadedImages(Tail(cats), listing)

\* the embedding of the image stored at a path
EmbedImageFile(path) ==
    (CHOOSE f \in ImageFiles : PathOf(f.category, f.name) = path).vec

\* embed_images_batch that leaves the last image out
embed_images_batch_DropsLast(paths) ==
    List([i \in 1..(Len(paths) - 1) |-> EmbedImageFile(paths[i])])

\* embed_images_batch(paths)
embed_images_batch(paths) == List([i \in 1..Len(paths) |-> EmbedImageFile(paths[i])])

\* the points upserted by build_index: point i has vector image_embeddings[i]
\* and the category image_categories[i]
IndexPoints(image_embeddings, image_categories) ==
    List([i \in 1..Len(image_embeddings) |->
            [category |-> image_categories[i], vec |-> image_embeddings[i]]])

(***************************************************************************)
(* Recommendations (search_engine/recommendations.py).                     *)
(***************************************************************************)
\* s[i] as Python evaluates it: a negative i counts from the end
PyIndexable(s, i) == i < Len(s) /\ i >= 0 - Len(s)

PyIndex(s, i) == IF i >= 0 THEN s[i + 1] ELSE s[Len(s) + i + 1]

\* the dictionary recommend() returns
RecommendResponse(eng, image_id, top_k, results, formatted_results) ==
    [raised |-> "none",
     categories |-> <<PyIndex(eng.image_categories, image_id)>>,
     negations |-> <<>>,
     results |-> SliceTo(formatted_results, top_k),
     total_results |-> Len(SliceTo(formatted_results, top_k)),
     semantic_matches |-> Len(results),
     ops |-> <<"client.search">>]

recommend_KeepsQueryItem(eng, idx, image_id, top_k) ==
    LET image_embeddings == eng.image_embeddings[1]
    IN  IF image_id >= Len(image_embeddings)
        THEN [raised |-> "ValueError", ops |-> <<>>]
        ELSE IF ~PyIndexable(image_embeddings, image_id)
        THEN [raised |-> "IndexError", ops |-> <<>>]
        ELSE LET img_embedding == PyIndex(image_embeddings, image_id)
                 results == client_search(idx, img_embedding, top_k + 1)
             IN  RecommendResponse(eng, image_id, top_k, results, results)

\* recommend(engine, image_id, top_k): the only test of image_id is
\* image_id >= len(engine.image_embeddings); ops lists the calls made to the
\* index
recommend(eng, idx, image_id, top_k) ==
    LET image_embeddings == eng.image_embeddings[1]
    IN  IF image_id >= Len(image_embeddings)
        THEN [raised |-> "ValueError", ops |-> <<>>]
        ELSE IF ~PyIndexable(image_embeddings, image_id)
        THEN [raised |-> "IndexError", ops |-> <<>>]
        ELSE LET img_embedding == PyIndex(image_embeddings, image_id)
                 results == client_search(idx, img_embedding, top_k + 1)
                 Other(p) == p.id # image_id
                 formatted_results == SelectSeq(results, Other)
             IN  RecommendResponse(eng, image_id, top_k, results, formatted_results)

(***************************************************************************)
(* Image search (search_engine/search.py, handlers/ocr.py,                 *)
(* utils/jewelry.py).  An uploaded image is its content type, whether its  *)
(* bytes decode, the direction of its embedding and the text written on    *)
(* it.                                                                      *)
(***************************************************************************)
CT_Jpeg == <<"i", "m", "a", "g", "e", "/", "j", "p", "e", "g">>
CT_Text == <<"t", "e", "x", "t", "/", "p", "l", "a", "i", "n">>
CT_ImagePrefix == <<"i", "m", "a", "g", "e", "/">>

Uploads ==
    {[content_type |-> CT_Text, decodes |-> FALSE, vec |-> 0, text |-> <<>>],
     [content_type |-> CT_Jpeg, decodes |-> FALSE, vec |-> 0, text |-> <<>>],
     [content_type |-> CT_Jpeg, decodes |-> TRUE, vec |-> 0, text |-> <<>>],
     [content_type |-> CT_Jpeg, decodes |-> TRUE, vec |-> 0, text |-> W_gold],
     [content_type |-> CT_Jpeg, decodes |-> TRUE, vec |-> 1, text |-> <<>>],
     [content_type |-> CT_Jpeg, decodes |-> TRUE, vec |-> 4, text |-> W_gold]}

\* str.startswith
StartsWith(s, prefix) == Len(prefix) <= Len(s) /\ SubSeq(s, 1, Len(prefix)) = prefix

\* OCRHandler.extract_text_with_llm: "" without a client, when the vision
\* model answers NO_TEXT and when the call raises; otherwise the text
extract_text_with_llm(eng, image, llm_reads) ==
    IF eng.openai_client /\ llm_reads THEN image.text ELSE <<>>

\* extract_text_from_image that gives up when the vision model found nothing
extract_text_from_image_NoFallback(eng, image, llm_reads, reader_loads) ==
    IF eng.openai_client
    THEN [text |-> extract_text_with_llm(eng, image, llm_reads),
          llm_text |-> extract_text_with_llm(eng, image, llm_reads),
          ocr_reader |-> eng.ocr_reader, ocr_calls |-> <<"llm">>]
    ELSE IF ~eng.ocr_available \/ (~eng.ocr_reader /\ ~reader_loads)
    THEN [text |-> <<>>, llm_text |-> <<>>, ocr_reader |-> eng.ocr_reader,
          ocr_calls |-> IF eng.ocr_available THEN <<"easyocr.Reader">> ELSE <<>>]
    ELSE [text |-> image.text, llm_text |-> <<>>, ocr_reader |-> TRUE,
          ocr_calls |-> (IF eng.ocr_reader THEN <<>> ELSE <<"easyocr.Reader">>)
                        \o <<"readtext">>]

\* OCRHandler.extract_text_from_image.  llm_reads: the vision model returns
\* the text of the image (otherwise NO_TEXT or an error); reader_loads:
\* easyocr.Reader() can be constructed (otherwise it raises, which
\* extract_text_with_easyocr catches).  The result is the text, the local
\* llm_text and the value of self.ocr_reader afterwards:
\* extract_text_with_easyocr creates the reader on its first call and keeps
\* it in the handler.
extract_text_from_image(eng, image, llm_reads, reader_loads) ==
    LET llm_text == extract_text_with_llm(eng, image, llm_reads)
    IN  IF eng.openai_client /\ llm_text # <<>>
        THEN [text |-> llm_text, llm_text |-> llm_text, ocr_reader |-> eng.ocr_reader,
              ocr_calls |-> <<"llm">>]
        ELSE LET before == IF eng.openai_client THEN <<"llm">> ELSE <<>>
             IN  IF ~eng.ocr_available
                 THEN [text |-> <<>>, llm_text |-> llm_text, ocr_reader |-> eng.ocr_reader,
                       ocr_calls |-> before]
                 ELSE IF ~eng.ocr_reader /\ ~reader_loads
                 THEN [text |-> <<>>, llm_text |-> llm_text, ocr_reader |-> FALSE,
                       ocr_calls |-> before \o <<"easyocr.Reader">>]
                 ELSE [text |-> image.text, llm_text |-> llm_text, ocr_reader |-> TRUE,
                       ocr_calls |-> before
                                     \o (IF eng.ocr_reader THEN <<>> ELSE <<"easyocr.Reader">>)
                                     \o <<"readtext">>]

\* type_queries = ["a ring", "a necklace"]
type_queries == <<Phrase(<<W_a, W_ring>>), Phrase(<<W_a, W_necklace>>)>>

\* the confidence a detected type needs, in thousandths
TypeConfidence == 250

\* argmax: the first index of the greatest value
argmax(similarities) ==
    CHOOSE i \in 1..Len(similarities) :
        /\ \A j \in 1..Len(similarities) : similarities[j] <= similarities[i]
        /\ \A j \in 1..(i - 1) : similarities[j] < similarities[i]

\* the best match accepted at the threshold itself
best_type_AtThreshold(similarities, detects) ==
    IF detects /\ similarities[argmax(similarities)] >= TypeConfidence
    THEN Some(Replace(type_queries[argmax(similarities)], <<"a", " ">>, <<>>))
    ELSE None

\* detect_jewelry_type from the similarities on: the type query of the best
\* score, without its article, if the score exceeds 0.25.  detects: the
\* processor and the model run; when one of them raises, the except clause
\* prints the error and the function returns None
best_type(similarities, detects) ==
    IF detects /\ similarities[argmax(similarities)] > TypeConfidence
    THEN Some(Replace(type_queries[argmax(similarities)], <<"a", " ">>, <<>>))
    ELSE None

\* JewelryUtils.detect_jewelry_type: the similarities of the image to the
\* two type queries, and the best of them
detect_jewelry_type(image, detects) ==
    best_type(List([i \in 1..Len(type_queries) |->
                       Cos(image.vec, embed_text(type_queries[i]))]),
              detects)

\* client.search(query_vector, limit, query_filter): positions is the set of
\* points the filter admits, scores the cosine of every point
search_points(idx, scores, positions, limit) ==
    LET points == List([i \in 1..Len(idx) |->
                     [id |-> i - 1, score |-> scores[i], category |-> idx[i].category]])
        Admitted(p) == (p.id + 1) \in positions
        admitted == SelectSeq(points, Admitted)
        keys == List([i \in 1..Len(admitted) |-> admitted[i].score])
    IN  SliceTo(StableSortDesc(admitted, keys), limit)

\* |0.6 u + 0.4 t| in thousandths, by the angle between u and t (k * 45 degrees)
CombinedNorm == <<1000, 927, 721, 425, 200>>

CombinedNormOf(u, t) ==
    LET c == Cos(u, t)
    IN  CombinedNorm[CHOOSE k \in 1..Len(CosTable) : CosTable[k] = c]

\* one entry of "results": image searches set no plain or decoration score
FormatImageResult(p) ==
    [id |-> p.id, category |-> p.category, similarity_score |-> p.score,
     plain_score |-> None, decoration_score |-> None]

\* the dictionary both image searches return.  searches lists the calls of
\* client.search: the query vector, the limit and the filter of each.
ImageSearchResponse(seed, query, points, ops, searches) ==
    LET results == List([i \in 1..Len(points) |-> FormatImageResult(points[i])])
    IN  [raised |-> "none",
         query |-> query,
         categories |-> ListOfSet({results[i].category : i \in 1..Len(results)}, seed),
         negations |-> <<>>,
         results |-> results,
         total_results |-> Len(results),
         semantic_matches |-> Len(points),
         ops |-> ops,
         searches |-> searches]

\* search_by_image_and_text: the query vector is 0.6 * image + 0.4 * text,
\* normalised
search_by_image_and_text(idx, seed, image, text, top_k) ==
    LET img_embedding == image.vec
        text_embedding == embed_text(text)
        norm == CombinedNormOf(img_embedding, text_embedding)
        scores == List([i \in 1..Len(idx) |->
                      (600 * Cos(img_embedding, idx[i].vec)
                       + 400 * Cos(text_embedding, idx[i].vec)) \div norm])
        points == search_points(idx, scores, 1..Len(idx), top_k)
    IN  ImageSearchResponse(seed, text, points,
            <<"embed_image", "embed_text", "client.search">>,
            <<[query_vector |-> [image |-> img_embedding, text |-> Some(text_embedding)],
               limit |-> top_k, query_filter |-> None]>>)

\* search_by_image without the type filter of the pure image search
search_by_image_Unfiltered(eng, idx, seed, image, top_k, llm_reads, reader_loads, detects) ==
    LET ocr == extract_text_from_image(eng, image, llm_reads, reader_loads)
        detected_type == detect_jewelry_type(image, detects)
        run ==
            IF ocr.text # <<>>
            THEN search_by_image_and_text(idx, seed, image,
                     IF detected_type # None
                     THEN detected_type[1] \o <<" ">> \o ocr.text
                     ELSE ocr.text,
                     top_k)
            ELSE LET scores == List([i \in 1..Len(idx) |-> Cos(image.vec, idx[i].vec)])
                 IN  ImageSearchResponse(seed, <<"Image upload search">>,
                         search_points(idx, scores, 1..Len(idx), top_k),
                         <<"embed_image", "client.search">>,
                         <<[query_vector |-> [image |-> image.vec, text |-> None],
                            limit |-> top_k, query_filter |-> detected_type]>>)
    IN  [response |-> [run EXCEPT !.ops = ocr.ocr_calls \o <<"detect_jewelry_type">> \o run.ops],
         extracted_text |-> ocr.text,
         llm_text |-> ocr.llm_text,
         detection |-> IF detects THEN "returned" ELSE "raised",
         detected_type |-> detected_type,
         ocr_reader |-> ocr.ocr_reader]

\* search_by_image with the detected type left out of the text query
search_by_image_TextOnly(eng, idx, seed, image, top_k, llm_reads, reader_loads, detects) ==
    LET ocr == extract_text_from_image(eng, image, llm_reads, reader_loads)
        detected_type == detect_jewelry_type(image, detects)
        run ==
            IF ocr.text # <<>>
            THEN search_by_image_and_text(idx, seed, image, ocr.text, top_k)
            ELSE LET scores == List([i \in 1..Len(idx) |-> Cos(image.vec, idx[i].vec)])
                     positions == {i \in 1..Len(idx) :
                                      detected_type # None => idx[i].category = detected_type[1]}
                 IN  ImageSearchResponse(seed, <<"Image upload search">>,
                         search_points(idx, scores, positions, top_k),
                         <<"embed_image", "client.search">>,
                         <<[query_vector |-> [image |-> image.vec, text |-> None],
                            limit |-> top_k, query_filter |-> detected_type]>>)
    IN  [response |-> [run EXCEPT !.ops = ocr.ocr_calls \o <<"detect_jewelry_type">> \o run.ops],
         extracted_text |-> ocr.text,
         llm_text |-> ocr.llm_text,
         detection |-> IF detects THEN "returned" ELSE "raised",
         detected_type |-> detected_type,
         ocr_reader |-> ocr.ocr_reader]

\* search_by_image: the text read from the image and the detected type make
\* a hybrid query; without text the nearest images of the detected type.
\* extracted_text and detected_type are the locals of the call.
search_by_image(eng, idx, seed, image, top_k, llm_reads, reader_loads, detects) ==
    LET ocr == extract_text_from_image(eng, image, llm_reads, reader_loads)
        detected_type == detect_jewelry_type(image, detects)
        run ==
            IF ocr.text # <<>>
            THEN search_by_image_and_text(idx, seed, image,
                     IF detected_type # None
                     THEN detected_type[1] \o <<" ">> \o ocr.text
                     ELSE ocr.text,
                     top_k)
            ELSE LET scores == List([i \in 1..Len(idx) |-> Cos(image.vec, idx[i].vec)])
                     positions == {i \in 1..Len(idx) :
                                      detected_type # None => idx[i].category = detected_type[1]}
                 IN  ImageSearchResponse(seed, <<"Image upload search">>,
                         search_points(idx, scores, positions, top_k),
                         <<"embed_image", "client.search">>,
                         <<[query_vector |-> [image |-> image.vec, text |-> None],
                            limit |-> top_k, query_filter |-> detected_type]>>)
    IN  [response |-> [run EXCEPT !.ops = ocr.ocr_calls \o <<"detect_jewelry_type">> \o run.ops],
         extracted_text |-> ocr.text,
         llm_text |-> ocr.llm_text,
         detection |-> IF detects THEN "returned" ELSE "raised",
         detected_type |-> detected_type,
         ocr_reader |-> ocr.ocr_reader]

(***************************************************************************)
(* State.                                                                  *)
(***************************************************************************)
VARIABLES
    categories,   \* engine.categories, the known categories
    hashSeed,     \* the string-hash seed of the running Python process
    index,        \* the points of the Qdrant collection, in id order
    pc,           \* "idle", or "done" once search() has returned
    req,          \* the arguments of the search() call
    resp,         \* the dictionary search() returned
    locals,       \* the local lists of that call
    embedLog,     \* the calls that call made to the embedding provider
    query,        \* the text handed to the query processor
    qa,           \* what the query processor last returned for it
    qaPrev,       \* what it returned the time before
    disk,         \* the image files of the dataset directory
    cacheFiles,   \* the files of the cache directory: name -> content
    startupPc,    \* how far initialize_search_engine() has come
    engine,       \* the fields of the JewelrySearchEngine under construction
    search_engine, \* the global _search_engine of dependencies.py
    buildLog,     \* what build_index did in this process
    lastPut,      \* the last successful save_embeddings_cache
    http,         \* the last HTTP request and its response
    call          \* the last call of a function made on its own, and the one before

serviceVars == <<disk, cacheFiles, startupPc, engine, search_engine, buildLog, lastPut, http>>
vars == <<categories, hashSeed, index, pc, req, resp, locals, embedLog, query, qa, qaPrev,
          disk, cacheFiles, startupPc, engine, search_engine, buildLog, lastPut, http, call>>
searchVars == <<index, pc, req, resp, locals, embedLog>>
analysisVars == <<query, qa, qaPrev, call>>

\* categories=["ring", "necklace"] (dependencies.py), the default of the engine
DefaultCategories == <<W_ring, W_necklace>>

NoRequest == [none |-> TRUE]
NoResponse == [none |-> TRUE]
NoLocals == [none |-> TRUE]
NoAnalysis == [none |-> TRUE]
NoEngine == [none |-> TRUE]
NoBuild == [none |-> TRUE]
NoPut == [none |-> TRUE]
NoHttp == [none |-> TRUE]
NoCall == [none |-> TRUE]

\* no server process, an empty dataset and an empty cache directory
ServiceDown ==
    /\ disk = {}
    /\ cacheFiles = <<>>
    /\ startupPc = "down"
    /\ engine = NoEngine
    /\ search_engine = "None"
    /\ buildLog = NoBuild
    /\ lastPut = NoPut
    /\ http = NoHttp

(***************************************************************************)
(* Inputs.                                                                 *)
(***************************************************************************)
\* directions of the image embeddings held by the index
ImageDirs == {0, 1, 4}

CatPos(cats, c) == CHOOSE i \in 1..Len(cats) : cats[i] = c

\* load_images appends the images category by category, in the order of
\* engine.categories; build_index gives the i-th image the id i.
Indexes(cats) ==
    {idx \in UNION {[1..n -> [category : Range(cats), vec : ImageDirs]] : n \in 0..MaxItems} :
        \A i, j \in 1..Len(idx) :
            i < j => CatPos(cats, idx[i].category) <= CatPos(cats, idx[j].category)}

\* the queries of search requests
SearchQueries ==
    {Phrase(<<W_gold, W_ring>>),
     Phrase(<<W_ring, W_with, W_no, W_diamonds>>),
     Phrase(<<W_NO, W_stones>>),
     Phrase(<<W_necklace, W_without, W_gems>>),
     Phrase(<<W_no, W_stone, W_no, W_stones>>)}

\* the categories argument: None, or an explicit list
ExplicitCategories == {<<>>, <<W_necklace>>, <<W_ring, W_necklace>>}

\* (max_decoration_score, min_plain_score) in thousandths: the defaults of
\* search() (0.25, 0.28), the defaults of SearchRequest (0.85, 0.325), and a
\* pair of values that similarities take
ThresholdPairs == {<<250, 280>>, <<850, 325>>, <<1000, 707>>}

\* the vocabulary of generated queries
Vocabulary == {W_no, W_NO, W_ON, W_without, W_ring, W_stone, W_stones}

\* queries of the form "<category> with no <neg>"
NegWords ==
    {W_diamonds, W_stones, W_rings, W_ring, W_no, W_NO, W_without, W_without \o <<"s">>, W_piano}

FormQueries ==
    {Phrase(<<c, W_with, W_no, n>>) : c \in Range(DefaultCategories), n \in NegWords}

Queries ==
    {Join(ws) : ws \in UNION {[1..n -> Vocabulary] : n \in 0..MaxWords}}
    \cup FormQueries
    \cup {Phrase(<<W_a, W_ring, W_no, W_stones, W_and, W_no, W_cost>>),
          Phrase(<<W_piano, W_stones>>),
          Phrase(<<W_no, W_ring, W_without, W_necklace, W_no, W_stones>>),
          Phrase(<<W_ring, W_no, W_stone, W_no, W_stones>>),
          Phrase(<<W_Necklace, W_no, W_stones>>)}

\* configured category lists
CategoryConfigs == {DefaultCategories, <<W_stones, W_ring>>}

\* the whole of search()
SearchRun(cats, idx, seed, r) ==
    Retrieve(idx, r, Prepare(cats, seed, r.query, r.categories))

(***************************************************************************)
(* The search service: requests against a built index.                     *)
(***************************************************************************)
Init ==
    /\ categories = DefaultCategories
    /\ hashSeed \in HashSeeds
    /\ index \in Indexes(DefaultCategories)
    /\ pc = "idle"
    /\ req = NoRequest
    /\ resp = NoResponse
    /\ locals = NoLocals
    /\ embedLog = <<>>
    /\ query = <<>>
    /\ qa = NoAnalysis
    /\ qaPrev = NoAnalysis
    /\ call = NoCall
    /\ ServiceDown

\* search() runs from its first line to its return
Search(q, c) ==
    /\ pc = "idle"
    /\ \E pre \in {Prepare(categories, hashSeed, q, c)} :
       \E k \in (-1)..MaxTopK, sk \in 1..MaxTopK, t \in ThresholdPairs :
       \E r \in {[query |-> q, categories |-> c, top_k |-> k, semantic_top_k |-> sk,
                  max_decoration_score |-> t[1], min_plain_score |-> t[2]]} :
       \E run \in {Retrieve(index, r, pre)} :
           /\ req' = r
           /\ resp' = run.response
           /\ locals' = run.locals
           /\ embedLog' = run.calls
    /\ pc' = "done"
    /\ UNCHANGED <<categories, hashSeed, index, analysisVars, serviceVars>>

\* the response goes to the caller; the request's lists are dropped
Respond ==
    /\ pc = "done"
    /\ pc' = "idle"
    /\ req' = NoRequest
    /\ resp' = NoResponse
    /\ locals' = NoLocals
    /\ embedLog' = <<>>
    /\ UNCHANGED <<categories, hashSeed, index, analysisVars, serviceVars>>

Next == (\E q \in SearchQueries, c \in ExplicitCategories : Search(q, c)) \/ Respond

Spec == Init /\ [][Next]_vars

(***************************************************************************)
(* The query processor alone: one query, analysed again and again, across  *)
(* restarts of the process.                                                *)
(***************************************************************************)
InitQuery ==
    /\ categories \in CategoryConfigs
    /\ hashSeed \in HashSeeds
    /\ query \in Queries
    /\ qa = NoAnalysis
    /\ qaPrev = NoAnalysis
    /\ call = NoCall
    /\ index = <<>>
    /\ pc = "idle"
    /\ req = NoRequest
    /\ resp = NoResponse
    /\ locals = NoLocals
    /\ embedLog = <<>>
    /\ ServiceDown

\* the first lines of search(), with categories=None: extract_categories,
\* extract_negations, the first category, enhance_query
AnalyzeQuery ==
    /\ LET filter_categories == extract_categories(categories, query)
           negations == extract_negations(categories, query, hashSeed)
           category == FirstCategory(filter_categories)
       IN  qa' = [categories |-> filter_categories,
                  negations |-> negations,
                  enhanced_query |-> enhance_query(query, category, negations)]
    /\ qaPrev' = qa
    /\ UNCHANGED <<categories, hashSeed, query, call, searchVars, serviceVars>>

\* the server process is restarted: Python draws a new string-hash seed
Restart ==
    /\ hashSeed' \in HashSeeds \ {hashSeed}
    /\ UNCHANGED <<categories, query, qa, qaPrev, call, searchVars, serviceVars>>

NextQuery == AnalyzeQuery \/ Restart

SpecQuery == InitQuery /\ [][NextQuery]_vars

(***************************************************************************)
(* The server process: start-up (dependencies.py, engine.py, indexing),    *)
(* the HTTP endpoints (routes), and restarts over a growing dataset.       *)
(***************************************************************************)
InitService ==
    /\ categories = DefaultCategories
    /\ hashSeed = 0
    /\ index = <<>>
    /\ pc = "idle"
    /\ req = NoRequest
    /\ resp = NoResponse
    /\ locals = NoLocals
    /\ embedLog = <<>>
    /\ query = <<>>
    /\ qa = NoAnalysis
    /\ qaPrev = NoAnalysis
    /\ call = NoCall
    /\ ServiceDown

\* while no server runs, an image file is added to the dataset
AddImage(f) ==
    /\ startupPc = "down"
    /\ f \notin disk
    /\ Cardinality(disk) < MaxItems
    /\ disk' = disk \cup {f}
    /\ UNCHANGED <<categories, hashSeed, searchVars, analysisVars, cacheFiles, startupPc,
                   engine, search_engine, buildLog, lastPut, http>>

\* the process starts: initialize_search_engine() constructs the engine.
\* openai: OPENAI_API_KEY is set; easyocr: the easyocr package is importable.
StartProcess(openai, easyocr) ==
    /\ startupPc = "down"
    /\ startupPc' = "constructed"
    /\ engine' = [model_name |-> DefaultModelName,
                  model |-> FALSE,
                  image_paths |-> <<>>,
                  image_categories |-> <<>>,
                  image_embeddings |-> None,
                  total_images |-> 0,
                  openai_client |-> openai,
                  ocr_available |-> easyocr,
                  ocr_reader |-> FALSE]
    /\ UNCHANGED <<categories, hashSeed, searchVars, analysisVars, disk, cacheFiles,
                   search_engine, buildLog, lastPut, http>>

\* initialize(): the CLIP model and processor are loaded
LoadModel ==
    /\ startupPc = "constructed"
    /\ http = NoHttp
    /\ startupPc' = "model_loaded"
    /\ engine' = [engine EXCEPT !.model = TRUE]
    /\ UNCHANGED <<categories, hashSeed, searchVars, analysisVars, disk, cacheFiles,
                   search_engine, buildLog, lastPut, http>>

\* one listing of each category directory
ListingChoices(files, cats) ==
    LET D == Range(cats)
    IN  {l \in [D -> UNION {DirListings(files, c) : c \in D}] :
            \A c \in D : l[c] \in DirListings(files, c)}

\* load_images()
LoadImages ==
    /\ startupPc = "model_loaded"
    /\ http = NoHttp
    /\ startupPc' = "images_loaded"
    /\ \E listing \in ListingChoices(disk \cup OtherFiles, categories) :
        LET loaded == LoadedImages(categories, listing)
        IN  engine' = [engine EXCEPT
                !.image_paths = List([i \in 1..Len(loaded) |-> loaded[i].path]),
                !.image_categories = List([i \in 1..Len(loaded) |-> loaded[i].category]),
                !.total_images = Len(loaded)]
    /\ UNCHANGED <<categories, hashSeed, searchVars, analysisVars, disk, cacheFiles,
                   search_engine, buildLog, lastPut, http>>

\* build_index when an error of the cache write is not caught
BuildIndex_WriteFailureFatal(outcome) ==
    /\ startupPc = "images_loaded"
    /\ http = NoHttp
    /\ LET cached == load_embeddings_cache(cacheFiles, engine.model_name, engine.image_paths)
           miss == cached = None
           image_embeddings == IF miss THEN embed_images_batch(engine.image_paths)
                               ELSE cached[1]
       IN  /\ miss \/ outcome = "written"
           /\ cacheFiles' = IF miss
                            THEN save_embeddings_cache(cacheFiles, engine.model_name,
                                     image_embeddings, engine.image_paths, outcome)
                            ELSE cacheFiles
           /\ lastPut' = IF miss /\ outcome = "written"
                         THEN [model_name |-> engine.model_name,
                               image_paths |-> engine.image_paths,
                               embeddings |-> image_embeddings]
                         ELSE lastPut
           /\ buildLog' = [put_before |-> lastPut,
                           files_before |-> cacheFiles,
                           cached |-> cached,
                           embedded |-> IF miss THEN engine.image_paths ELSE <<>>,
                           saved |-> IF miss THEN Some(outcome) ELSE None]
           /\ engine' = [engine EXCEPT !.image_embeddings = Some(image_embeddings)]
           /\ IF miss /\ outcome # "written"
              THEN UNCHANGED <<startupPc, index>>
              ELSE /\ startupPc' = "initialized"
                   /\ index' = IndexPoints(image_embeddings, engine.image_categories)
    /\ UNCHANGED <<categories, hashSeed, pc, req, resp, locals, embedLog, analysisVars, disk,
                   search_engine, http>>

\* build_index(): the embeddings come from the cache, or are computed and
\* saved; then the collection is created and filled
BuildIndex(outcome) ==
    /\ startupPc = "images_loaded"
    /\ http = NoHttp
    /\ startupPc' = "initialized"
    /\ LET cached == load_embeddings_cache(cacheFiles, engine.model_name, engine.image_paths)
           miss == cached = None
           image_embeddings == IF miss THEN embed_images_batch(engine.image_paths)
                               ELSE cached[1]
       IN  /\ miss \/ outcome = "written"
           /\ cacheFiles' = IF miss
                            THEN save_embeddings_cache(cacheFiles, engine.model_name,
                                     image_embeddings, engine.image_paths, outcome)
                            ELSE cacheFiles
           /\ lastPut' = IF miss /\ outcome = "written"
                         THEN [model_name |-> engine.model_name,
                               image_paths |-> engine.image_paths,
                               embeddings |-> image_embeddings]
                         ELSE lastPut
           /\ buildLog' = [put_before |-> lastPut,
                           files_before |-> cacheFiles,
                           cached |-> cached,
                           embedded |-> IF miss THEN engine.image_paths ELSE <<>>,
                           saved |-> IF miss THEN Some(outcome) ELSE None]
           /\ engine' = [engine EXCEPT !.image_embeddings = Some(image_embeddings)]
           /\ index' = IndexPoints(image_embeddings, engine.image_categories)
    /\ UNCHANGED <<categories, hashSeed, pc, req, resp, locals, embedLog, analysisVars, disk,
                   search_engine, http>>

\* initialize() has returned: set_search_engine(engine)
Publish ==
    /\ startupPc = "initialized"
    /\ http = NoHttp
    /\ startupPc' = "serving"
    /\ search_engine' = "engine"
    /\ UNCHANGED <<categories, hashSeed, searchVars, analysisVars, disk, cacheFiles,
                   engine, buildLog, lastPut, http>>

\* the process ends; the dataset and the cache directory stay
StopProcess ==
    /\ startupPc = "serving"
    /\ http = NoHttp
    /\ startupPc' = "down"
    /\ engine' = NoEngine
    /\ search_engine' = "None"
    /\ index' = <<>>
    /\ buildLog' = NoBuild
    /\ http' = NoHttp
    /\ UNCHANGED <<categories, hashSeed, pc, req, resp, locals, embedLog, analysisVars, disk,
                   cacheFiles, lastPut>>

Startup ==
    \/ \E f \in ImageFiles : AddImage(f)
    \/ \E openai, easyocr \in BOOLEAN : StartProcess(openai, easyocr)
    \/ LoadModel
    \/ LoadImages
    \/ \E outcome \in WriteOutcomes : BuildIndex(outcome)
    \/ Publish
    \/ StopProcess

(***************************************************************************)
(* The HTTP endpoints (main.py, routes).  A request is handled from its    *)
(* first line to its response; http is the request and what the caller     *)
(* got.  engine_ops lists the operations of the engine the handler called. *)
(***************************************************************************)
requestFrame == <<categories, hashSeed, searchVars, analysisVars, disk, cacheFiles, startupPc,
                  search_engine, buildLog, lastPut>>

\* get_search_engine()
get_search_engine == IF search_engine = "None" THEN None ELSE Some(engine)

Answer(endpoint, arg, status, body, ops) ==
    [endpoint |-> endpoint, arg |-> arg, status |-> status, body |-> body, engine_ops |-> ops]

Unavailable_AnswersOk(endpoint, arg) ==
    Answer(endpoint, arg, 200, [status |-> "online"], <<>>)

\* an answer together with the locals of the call that made it
WithLocals(answer, locals_) ==
    [f \in DOMAIN answer \cup {"locals"} |-> IF f = "locals" THEN locals_ ELSE answer[f]]

\* raise HTTPException(status_code=503, detail="Search engine not initialized")
Unavailable(endpoint, arg) ==
    Answer(endpoint, arg, 503, [detail |-> "Search engine not initialized"], <<>>)

\* the process runs and the previous response has been sent: the model
\* handles requests, and the steps of start-up, one at a time
Listening == startupPc # "down" /\ http = NoHttp

\* the ids a caller may send: the valid ones, one past either end, and the
\* negative ones Python would count from the end
IdChoices == (0 - MaxItems - 1)..MaxItems

\* GET /: static information, the engine is not consulted
Root ==
    /\ Listening
    /\ http' = Answer("root", <<>>, 200, [status |-> "online"], <<>>)
    /\ UNCHANGED <<requestFrame, engine>>

\* GET /health
health_check ==
    /\ Listening
    /\ http' = IF get_search_engine = None
               THEN Unavailable("health", <<>>)
               ELSE Answer("health", <<>>, 200,
                           [status |-> "healthy", model_loaded |-> engine.model,
                            total_images |-> engine.total_images],
                           <<>>)
    /\ UNCHANGED <<requestFrame, engine>>

\* JewelrySearchEngine.get_category_counts
get_category_counts(eng, cats) ==
    [c \in Range(cats) |->
        Cardinality({i \in 1..Len(eng.image_categories) : eng.image_categories[i] = c})]

\* GET /categories
get_categories ==
    /\ Listening
    /\ http' = IF get_search_engine = None
               THEN Unavailable("categories", <<>>)
               ELSE Answer("categories", <<>>, 200,
                           [categories |-> categories, total_images |-> engine.total_images,
                            images_per_category |-> get_category_counts(engine, categories)],
                           <<"get_category_counts">>)
    /\ UNCHANGED <<requestFrame, engine>>

\* POST /search
search_route(q, top_k) ==
    /\ Listening
    /\ http' = IF get_search_engine = None
               THEN Unavailable("search", <<q, top_k>>)
               ELSE LET r == [query |-> q, categories |-> <<>>, top_k |-> top_k,
                              semantic_top_k |-> MaxTopK,
                              max_decoration_score |-> 850, min_plain_score |-> 325]
                        run == SearchRun(categories, index, hashSeed, r)
                    IN  Answer("search", <<q, top_k>>, 200, run.response, <<"search">>)
    /\ UNCHANGED <<requestFrame, engine>>

\* POST /recommend: whatever recommend raises is answered with 500
recommend_route(image_id, top_k) ==
    /\ Listening
    /\ http' = IF get_search_engine = None
               THEN Unavailable("recommend", <<image_id, top_k>>)
               ELSE LET r == recommend(engine, index, image_id, top_k)
                    IN  IF r.raised # "none"
                        THEN Answer("recommend", <<image_id, top_k>>, 500,
                                    [detail |-> r.raised], <<"recommend">> \o r.ops)
                        ELSE Answer("recommend", <<image_id, top_k>>, 200, r,
                                    <<"recommend">> \o r.ops)
    /\ UNCHANGED <<requestFrame, engine>>

\* JewelryUtils.generate_description without a language model
generate_description(category) == <<"A beautiful ", category, " piece from our collection.">>

\* GET /product/{product_id}
get_product(product_id) ==
    /\ Listening
    /\ http' = IF get_search_engine = None
               THEN Unavailable("product", <<product_id>>)
               ELSE IF product_id < 0 \/ product_id >= Len(engine.image_paths)
               THEN Answer("product", <<product_id>>, 404, [detail |-> "Product not found"], <<>>)
               ELSE LET category == engine.image_categories[product_id + 1]
                    IN  Answer("product", <<product_id>>, 200,
                               [id |-> product_id,
                                image_path |-> engine.image_paths[product_id + 1],
                                category |-> category,
                                description |-> generate_description(category)],
                               <<"generate_description">>)
    /\ UNCHANGED <<requestFrame, engine>>

\* the paths of the image files on disk
PathsOnDisk == {PathOf(f.category, f.name) : f \in disk}

\* GET /image/{image_id}
get_image(image_id) ==
    /\ Listening
    /\ http' = IF get_search_engine = None
               THEN Unavailable("image", <<image_id>>)
               ELSE IF image_id < 0 \/ image_id >= Len(engine.image_paths)
               THEN Answer("image", <<image_id>>, 404, [detail |-> "Image not found"], <<>>)
               ELSE IF engine.image_paths[image_id + 1] \notin PathsOnDisk
               THEN Answer("image", <<image_id>>, 404, [detail |-> "Image file not found"], <<>>)
               ELSE Answer("image", <<image_id>>, 200,
                           [file |-> engine.image_paths[image_id + 1]], <<>>)
    /\ UNCHANGED <<requestFrame, engine>>

\* random.sample(range(total), k): k distinct indices in any order
Samples(total, k) ==
    {s \in [1..k -> 0..(total - 1)] : \A i, j \in 1..k : i # j => s[i] # s[j]}

\* GET /featured
get_featured_items(limit) ==
    /\ Listening
    /\ IF get_search_engine = None
       THEN http' = Unavailable("featured", <<limit>>)
       ELSE LET total == Len(engine.image_paths)
            IN  \E random_indices \in Samples(total, IF limit < total THEN limit ELSE total) :
                    LET results == List([i \in 1..Len(random_indices) |->
                                     [id |-> random_indices[i],
                                      category |-> engine.image_categories[random_indices[i] + 1],
                                      score |-> 1000]])
                    IN  http' = Answer("featured", <<limit>>, 200,
                                   [categories |-> ListOfSet({results[i].category :
                                                       i \in 1..Len(results)}, hashSeed),
                                    negations |-> <<>>,
                                    results |-> results,
                                    total_results |-> Len(results)],
                                   <<>>)
    /\ UNCHANGED <<requestFrame, engine>>

\* POST /upload and POST /upload-with-text (q is the form field query; the
\* plain upload has none).  The search runs search_by_image, or
\* search_by_image_and_text when a query came with the image.
upload_image(endpoint, file, q, top_k) ==
    /\ Listening
    /\ IF get_search_engine = None
       THEN /\ http' = Unavailable(endpoint, <<file, q, top_k>>)
            /\ UNCHANGED engine
       ELSE IF ~StartsWith(file.content_type, CT_ImagePrefix)
       THEN /\ http' = Answer(endpoint, <<file, q, top_k>>, 400,
                              [detail |-> "File must be an image"], <<>>)
            /\ UNCHANGED engine
       ELSE IF ~file.decodes
       THEN /\ http' = Answer(endpoint, <<file, q, top_k>>, 500, [detail |-> "Upload error"], <<>>)
            /\ UNCHANGED engine
       ELSE IF q # <<>>
       THEN LET r == search_by_image_and_text(index, hashSeed, file, q, top_k)
            IN  /\ http' = Answer(endpoint, <<file, q, top_k>>, 200, r,
                                  <<"search_by_image_and_text">> \o r.ops)
                /\ UNCHANGED engine
       ELSE \E llm_reads, reader_loads, detects \in BOOLEAN :
            LET run == search_by_image(engine, index, hashSeed, file, top_k, llm_reads,
                                       reader_loads, detects)
            IN  /\ http' = WithLocals(Answer(endpoint, <<file, q, top_k>>, 200, run.response,
                                             <<"search_by_image">> \o run.response.ops),
                                      [extracted_text |-> run.extracted_text,
                                       llm_text |-> run.llm_text,
                                       detection |-> run.detection,
                                       detected_type |-> run.detected_type])
                /\ engine' = [engine EXCEPT !.ocr_reader = run.ocr_reader]
    /\ UNCHANGED requestFrame

\* the text that comes with an upload
UploadQueries == {<<>>, Phrase(<<W_gold, W_ring>>)}

Requests ==
    \/ Root
    \/ health_check
    \/ get_categories
    \/ \E q \in {Phrase(<<W_gold, W_ring>>), Phrase(<<W_necklace, W_without, W_gems>>)},
          top_k \in 1..MaxTopK : search_route(q, top_k)
    \/ \E image_id \in IdChoices, top_k \in 1..MaxTopK : recommend_route(image_id, top_k)
    \/ \E product_id \in IdChoices : get_product(product_id)
    \/ \E image_id \in IdChoices : get_image(image_id)
    \/ \E limit \in 1..MaxTopK : get_featured_items(limit)
    \/ \E file \in Uploads, top_k \in 1..MaxTopK : upload_image("upload", file, <<>>, top_k)
    \/ \E file \in Uploads, q \in UploadQueries, top_k \in 1..MaxTopK :
          upload_image("upload-with-text", file, q, top_k)

\* the response has gone to the caller
SendResponse ==
    /\ http # NoHttp
    /\ http' = NoHttp
    /\ UNCHANGED <<requestFrame, engine>>

\* the datasets a server may start over
Datasets == {d \in SUBSET ImageFiles : Cardinality(d) <= MaxItems}

\* one server process over a dataset, from its start on
InitServing ==
    /\ categories = DefaultCategories
    /\ hashSeed = 0
    /\ index = <<>>
    /\ pc = "idle"
    /\ req = NoRequest
    /\ resp = NoResponse
    /\ locals = NoLocals
    /\ embedLog = <<>>
    /\ query = <<>>
    /\ qa = NoAnalysis
    /\ qaPrev = NoAnalysis
    /\ call = NoCall
    /\ disk \in Datasets
    /\ cacheFiles = <<>>
    /\ startupPc = "down"
    /\ engine = NoEngine
    /\ search_engine = "None"
    /\ buildLog = NoBuild
    /\ lastPut = NoPut
    /\ http = NoHttp

NextService ==
    \/ \E openai, easyocr \in BOOLEAN : StartProcess(openai, easyocr)
    \/ LoadModel
    \/ LoadImages
    \/ \E outcome \in WriteOutcomes : BuildIndex(outcome)
    \/ Publish
    \/ Requests
    \/ SendResponse

SpecService == InitServing /\ [][NextService]_vars

\* start-up and restarts alone, over a growing dataset
SpecCache == InitService /\ [][Startup]_vars

\* what can happen to a cache file while no server runs
Damages == {"deleted", "unreadable", "truncated", "other_count"}

DamagedFile(bytes, kind) ==
    IF kind = "unreadable" THEN Unreadable
    ELSE IF kind = "truncated" THEN SubSeq(bytes, 1, Len(bytes) - 1)
    ELSE PickleDump(PickleLoad(bytes)[1] \o <<0>>)

\* the file of the entry last saved is deleted, loses its read permission, is
\* cut short, or is replaced by an entry with another number of rows
DamageCache(kind) ==
    /\ startupPc = "down"
    /\ lastPut # NoPut
    /\ LET f == CacheFile(get_cache_key(lastPut.model_name, lastPut.image_paths))
       IN  cacheFiles' = IF kind = "deleted"
                         THEN [g \in DOMAIN cacheFiles \ {f} |-> cacheFiles[g]]
                         ELSE [cacheFiles EXCEPT ![f] = DamagedFile(cacheFiles[f], kind)]
    /\ lastPut' = NoPut
    /\ UNCHANGED <<categories, hashSeed, searchVars, analysisVars, disk, startupPc, engine,
                   search_engine, buildLog, http>>

NextBuild ==
    \/ \E openai, easyocr \in BOOLEAN : StartProcess(openai, easyocr)
    \/ LoadModel
    \/ LoadImages
    \/ \E outcome \in WriteOutcomes : BuildIndex(outcome)
    \/ Publish
    \/ StopProcess
    \/ \E kind \in Damages : DamageCache(kind)

\* a server started again and again over one dataset whose cache directory
\* is damaged in between
SpecBuild == InitServing /\ [][NextBuild]_vars

(***************************************************************************)
(* Functions called on their own, with arguments of the caller's choice.   *)
(***************************************************************************)
\* JewelrySearchEngine (clip_search.py), the engine the HTTP layer constructs:
\* its own copies of the query methods, of search and of recommend.
JewelrySearchEngine_extract_categories(cats, text) ==
    LET q == Lower(text)
        found == FilterSeq(cats, {c \in Range(cats) : Contains(q, c)})
    IN  IF found # <<>> THEN found ELSE cats

JewelrySearchEngine_extract_negations(cats, text, seed) ==
    LET q == Lower(text)
        words == Split(q)
        after_no == {words[i + 1] : i \in {j \in 1..(Len(words) - 1) :
                        words[j] = W_no /\ ~InList(words[j + 1], cats)}}
        after_without == IF Contains(q, W_without) /\ Len(SplitSep(q, W_without)) > 1
                         THEN Split(SplitSep(q, W_without)[2])
                         ELSE <<>>
        negated == IF after_without # <<>> /\ ~InList(after_without[1], cats)
                   THEN {after_without[1]}
                   ELSE {}
    IN  ListOfSet(after_no \cup negated, seed)

JewelrySearchEngine_get_decoration_terms(category, negations, seed) ==
    LET Has(neg, ws) == \E w \in ws : Contains(neg, w)
        terms(neg) ==
            {category \o SP \o W_with \o SP \o neg,
             neg \o SP \o category,
             category \o SP \o W_featuring \o SP \o neg,
             neg \o <<"s">> \o SP \o W_on \o SP \o category,
             category \o SP \o W_set \o SP \o W_with \o SP \o neg \o <<"s">>}
            \cup (IF Has(neg, {W_diamond, W_stone, W_gem})
                  THEN {W_jeweled \o SP \o category, W_sparkly \o SP \o category,
                        category \o SP \o W_with \o SP \o W_stones,
                        category \o SP \o W_with \o SP \o W_gems}
                  ELSE {})
            \cup (IF Has(neg, {W_pendant, W_charm})
                  THEN {category \o SP \o W_with \o SP \o W_pendant,
                        category \o SP \o W_with \o SP \o W_charm,
                        W_pendant \o SP \o category, W_charm \o SP \o category}
                  ELSE {})
            \cup (IF Has(neg, {W_pattern, W_design, W_engraving})
                  THEN {W_patterned \o SP \o category, W_engraved \o SP \o category,
                        W_ornate \o SP \o category,
                        category \o SP \o W_with \o SP \o W_design}
                  ELSE {})
    IN  ListOfSet(UNION {terms(negations[i]) : i \in 1..Len(negations)}, seed)

\* _get_plain_terms with the generic phrase for every category
JewelrySearchEngine_get_plain_terms_Generic(category) ==
    <<Phrase(<<W_plain, W_simple, category>>)>>

JewelrySearchEngine_get_plain_terms(category) ==
    IF category = W_ring
    THEN <<Phrase(<<W_plain, W_gold, W_ring>>), Phrase(<<W_simple, W_ring, W_band>>),
           Phrase(<<W_smooth, W_metal, W_ring>>), Phrase(<<W_minimalist, W_ring>>),
           Phrase(<<W_wedding, W_band>>), Phrase(<<W_plain, W_ring>>)>>
    ELSE IF category = W_necklace
    THEN <<Phrase(<<W_plain, W_gold, W_necklace>>), Phrase(<<W_simple, W_chain, W_necklace>>),
           Phrase(<<W_minimalist, W_necklace>>), Phrase(<<W_basic, W_necklace, W_chain>>),
           Phrase(<<W_smooth, W_necklace>>)>>
    ELSE <<Phrase(<<W_plain, W_simple, category>>)>>

RECURSIVE JewelrySearchEngine_enhance(_, _)
\* the loop of _enhance_query over the negations
JewelrySearchEngine_enhance(enhanced, negations) ==
    IF negations = <<>> THEN enhanced
    ELSE JewelrySearchEngine_enhance(
             Replace(Replace(enhanced, W_no \o SP \o negations[1],
                             Phrase(<<W_plain, W_simple>>)),
                     W_without \o SP \o negations[1], Phrase(<<W_minimalist, W_smooth>>)),
             Tail(negations))

JewelrySearchEngine_enhance_query(text, category, negations) ==
    JewelrySearchEngine_enhance(Lower(text), negations)

\* JewelrySearchEngine.search up to the index query.  The probe terms are
\* embedded one by one with _embed_text and stacked.
JewelrySearchEngine_analysis(cats, seed, r) ==
    LET filter_categories == IF r.categories # <<>> THEN r.categories
                             ELSE JewelrySearchEngine_extract_categories(cats, r.query)
        negations == JewelrySearchEngine_extract_negations(cats, r.query, seed)
        category == IF filter_categories # <<>> THEN filter_categories[1] ELSE W_jewelry
        enhanced_query == JewelrySearchEngine_enhance_query(r.query, category, negations)
        decoration_terms == IF negations # <<>>
                            THEN JewelrySearchEngine_get_decoration_terms(category, negations,
                                                                          seed)
                            ELSE <<>>
        plain_terms == IF negations # <<>> THEN JewelrySearchEngine_get_plain_terms(category)
                       ELSE <<>>
    IN  [filter_categories |-> filter_categories,
         negations |-> negations,
         enhanced_query |-> enhanced_query,
         query_embedding |-> embed_text(enhanced_query),
         decoration_embeddings |->
             List([i \in 1..Len(decoration_terms) |-> embed_text(decoration_terms[i])]),
         plain_embeddings |->
             List([i \in 1..Len(plain_terms) |-> embed_text(plain_terms[i])])]

\* JewelrySearchEngine.search from the index query on: the three stages and
\* the dictionary returned
JewelrySearchEngine_stages(idx, r, a) ==
    LET semantic_points == client_search(idx, a.query_embedding, r.semantic_top_k)
        InCategories(p) == p.category \in Range(a.filter_categories)
        category_points == IF a.filter_categories # <<>>
                           THEN SelectSeq(semantic_points, InCategories)
                           ELSE semantic_points
        candidates == List([i \in 1..Len(category_points) |->
                        [p |-> category_points[i],
                         plain |-> IF a.negations # <<>>
                                   THEN Some(MaxSim(a.plain_embeddings,
                                                    category_points[i].vector))
                                   ELSE None,
                         deco |-> IF a.negations # <<>>
                                  THEN Some(MaxSim(a.decoration_embeddings,
                                                   category_points[i].vector))
                                  ELSE None]])
        Passed(x) == /\ x.deco[1] < r.max_decoration_score
                     /\ x.plain[1] > r.min_plain_score
        passed_images == SelectSeq(candidates, Passed)
        filtered_points ==
            IF a.negations # <<>>
            THEN StableSortDesc(passed_images,
                     List([i \in 1..Len(passed_images) |-> passed_images[i].plain[1]]))
            ELSE candidates
        shown == SliceTo(filtered_points, r.top_k)
        results == List([i \in 1..Len(shown) |->
                      [id |-> shown[i].p.id,
                       category |-> shown[i].p.category,
                       similarity_score |-> shown[i].p.score,
                       plain_score |-> shown[i].plain,
                       decoration_score |-> shown[i].deco]])
    IN  [query |-> r.query,
         enhanced_query |-> a.enhanced_query,
         categories |-> a.filter_categories,
         negations |-> a.negations,
         results |-> results,
         total_results |-> Len(results),
         filter_stats |->
             [semantic_matches |-> Len(semantic_points),
              category_filtered |-> IF a.filter_categories # <<>> THEN Len(category_points)
                                    ELSE 0,
              negation_filtered |-> IF a.negations # <<>> THEN Len(filtered_points) ELSE 0,
              final_results |-> Len(results)]]

\* JewelrySearchEngine.search: the dictionary it returns
JewelrySearchEngine_search(cats, idx, seed, r) ==
    JewelrySearchEngine_stages(idx, r, JewelrySearchEngine_analysis(cats, seed, r))

\* JewelrySearchEngine.recommend
JewelrySearchEngine_recommend(eng, idx, image_id, top_k) ==
    LET image_embeddings == eng.image_embeddings[1]
    IN  IF image_id >= Len(image_embeddings)
        THEN [raised |-> "ValueError", ops |-> <<>>]
        ELSE IF ~PyIndexable(image_embeddings, image_id)
        THEN [raised |-> "IndexError", ops |-> <<>>]
        ELSE LET results == client_search(idx, PyIndex(image_embeddings, image_id), top_k + 1)
                 NotQuery(p) == p.id # image_id
                 formatted_results == SelectSeq(results, NotQuery)
             IN  [raised |-> "none",
                  categories |-> <<PyIndex(eng.image_categories, image_id)>>,
                  negations |-> <<>>,
                  results |-> SliceTo(formatted_results, top_k),
                  total_results |-> Len(SliceTo(formatted_results, top_k)),
                  semantic_matches |-> Len(results),
                  ops |-> <<"client.search">>]

(***************************************************************************)
(* Functions called on their own.                                          *)
(***************************************************************************)
callFrame == <<categories, hashSeed, query, qa, qaPrev, searchVars, serviceVars>>

\* another CLIP checkpoint than the default one
OtherModelName == <<"c", "l", "i", "p", "2">>

ModelNames == {DefaultModelName, OtherModelName}

\* lists of image paths, in any order and with repetitions
PathLists ==
    UNION {[1..n -> {PathOf(f.category, f.name) : f \in ImageFiles}] : n \in 0..MaxItems}

\* what is kept of the call before
Earlier(fn) ==
    IF "fn" \in DOMAIN call /\ call.fn = fn
    THEN [c \in DOMAIN call \ {"before"} |-> call[c]]
    ELSE NoCall

\* EmbeddingHandler(model_name).get_cache_key(image_paths)
GetCacheKey(model_name, image_paths) ==
    /\ call' = [fn |-> "get_cache_key",
                model_name |-> model_name,
                image_paths |-> image_paths,
                key |-> get_cache_key(model_name, image_paths),
                before |-> Earlier("get_cache_key")]
    /\ UNCHANGED callFrame

\* similarities of an image to a type query, in thousandths, on both sides
\* of the confidence threshold
TypeScores == {-707, 0, TypeConfidence - 1, TypeConfidence, TypeConfidence + 1, 707}

\* JewelryUtils.detect_jewelry_type(image), for an image whose similarities
\* to the type queries are given
DetectJewelryType(similarities, detects) ==
    /\ call' = [fn |-> "detect_jewelry_type",
                similarities |-> similarities,
                detects |-> detects,
                result |-> best_type(similarities, detects)]
    /\ UNCHANGED callFrame

\* an engine whose lists are those of the index
EngineOf(idx) ==
    [image_embeddings |-> Some(List([i \in 1..Len(idx) |-> idx[i].vec])),
     image_categories |-> List([i \in 1..Len(idx) |-> idx[i].category])]

\* one request given to search.search and to JewelrySearchEngine.search,
\* over the same index and in the same process; locals and calls are the
\* local lists of search.search and its calls to the embedding provider
SearchBoth(r) ==
    /\ call = NoCall
    /\ \E run \in {SearchRun(categories, index, hashSeed, r)} :
           call' = [fn |-> "search",
                    request |-> r,
                    modular |-> run.response,
                    locals |-> run.locals,
                    calls |-> run.calls,
                    monolith |-> JewelrySearchEngine_search(categories, index, hashSeed, r)]
    /\ UNCHANGED callFrame

\* one request given to recommendations.recommend and to
\* JewelrySearchEngine.recommend
RecommendBoth(image_id, top_k) ==
    /\ call = NoCall
    /\ call' = [fn |-> "recommend",
                image_id |-> image_id,
                top_k |-> top_k,
                modular |-> recommend(EngineOf(index), index, image_id, top_k),
                monolith |-> JewelrySearchEngine_recommend(EngineOf(index), index, image_id,
                                                           top_k)]
    /\ UNCHANGED callFrame

NextCalls ==
    \/ \E model_name \in ModelNames, image_paths \in PathLists :
          GetCacheKey(model_name, image_paths)
    \/ \E similarities \in [1..Len(type_queries) -> TypeScores], detects \in BOOLEAN :
          DetectJewelryType(similarities, detects)

SpecCalls == InitService /\ [][NextCalls]_vars

\* the caller has taken the result
ReturnCall ==
    /\ call # NoCall
    /\ call' = NoCall
    /\ UNCHANGED callFrame

\* the two implementations side by side over one index, one request at a
\* time
NextBoth ==
    \/ \E q \in SearchQueries, c \in ExplicitCategories, top_k \in {MaxTopK},
          semantic_top_k \in {1, MaxItems}, t \in ThresholdPairs :
          SearchBoth([query |-> q, categories |-> c, top_k |-> top_k,
                      semantic_top_k |-> semantic_top_k,
                      max_decoration_score |-> t[1], min_plain_score |-> t[2]])
    \/ \E image_id \in IdChoices, top_k \in 1..MaxTopK : RecommendBoth(image_id, top_k)
    \/ ReturnCall

SpecBoth == Init /\ [][NextBoth]_vars

(***************************************************************************)
(* Properties of search().                                                 *)
(***************************************************************************)
Done == pc = "done"

Min(a, b) == IF a < b THEN a ELSE b

IdsOf(points) == [i \in 1..Len(points) |-> points[i].id]

\* C1: for every text search request the returned filter_stats satisfy
\* semantic_matches >= category_filtered >= negation_filtered >= final_results.
C1_StageCountersNonIncreasing ==
    Done =>
        LET fs == resp.filter_stats
        IN  /\ fs.semantic_matches >= fs.category_filtered
            /\ fs.category_filtered >= fs.negation_filtered
            /\ fs.negation_filtered >= fs.final_results

\* the scores of candidate x are the maxima over the probe terms embedded
ScoresAreMaxOverProbes(x) ==
    /\ x.deco = Max({Cos(embed_text(embedLog[i].text), x.p.vector) :
                       i \in {j \in 1..Len(embedLog) : embedLog[j].arg = "decoration_terms"}})
    /\ x.plain = Max({Cos(embed_text(embedLog[i].text), x.p.vector) :
                        i \in {j \in 1..Len(embedLog) : embedLog[j].arg = "plain_terms"}})

\* C2: when negations were extracted, a category-filtered candidate is in the
\* stage-3 output if and only if its decoration_score (max over decoration
\* probes) is strictly below max_decoration_score and its plain_score (max over
\* plain probes) is strictly above min_plain_score.
C2_Stage3SurvivesIff ==
    (Done /\ resp.negations # <<>>) =>
        /\ locals.stage3_ran
        /\ Len(locals.scored) = Len(locals.category_points)
        /\ \A i \in 1..Len(locals.scored) :
            LET x == locals.scored[i]
            IN  /\ x.p = locals.category_points[i]
                /\ ScoresAreMaxOverProbes(x)
                /\ (\E j \in 1..Len(locals.filtered_points) :
                        locals.filtered_points[j].p = x.p)
                   <=> (x.deco < req.max_decoration_score /\ x.plain > req.min_plain_score)
        /\ \A j \in 1..Len(locals.filtered_points) :
            \E i \in 1..Len(locals.scored) :
                /\ locals.scored[i].p = locals.filtered_points[j].p
                /\ locals.filtered_points[j].plain = Some(locals.scored[i].plain)
                /\ locals.filtered_points[j].deco = Some(locals.scored[i].deco)

\* a request with negations where one candidate passes both thresholds and
\* another is dropped for its decoration score alone
C2_Witness ==
    /\ Done
    /\ resp.negations # <<>>
    /\ \E i, k \in 1..Len(locals.scored) :
        /\ locals.scored[i].deco >= req.max_decoration_score
        /\ locals.scored[i].plain > req.min_plain_score
        /\ locals.scored[k].deco < req.max_decoration_score
        /\ locals.scored[k].plain > req.min_plain_score
    /\ Len(locals.filtered_points) = 1

\* C3: when negations were extracted, the results are ordered by
\* non-increasing plain_score.
C3_ResultsByPlainScore ==
    (Done /\ resp.negations # <<>>) =>
        \A i, j \in 1..Len(resp.results) :
            i < j => resp.results[i].plain_score[1] >= resp.results[j].plain_score[1]

\* two results whose plain-score order reverses their similarity order
C3_Witness ==
    /\ Done
    /\ resp.negations # <<>>
    /\ Len(resp.results) >= 2
    /\ resp.results[1].plain_score[1] > resp.results[2].plain_score[1]
    /\ resp.results[1].similarity_score < resp.results[2].similarity_score

IsPrefix(a, b) == Len(a) <= Len(b) /\ a = SubSeq(b, 1, Len(a))

\* C4: when no negations are extracted, stage 3 does not run: no probe terms
\* are embedded, every result has plain_score and decoration_score unset, and
\* the results keep the order in which the index returned them, after the
\* category filter.
C4_NoNegationsSkipsStage3 ==
    (Done /\ resp.negations = <<>>) =>
        /\ ~locals.stage3_ran
        /\ embedLog = <<[via |-> "embed_text", arg |-> "enhanced_query",
                         text |-> resp.enhanced_query]>>
        /\ \A i \in 1..Len(resp.results) :
            /\ resp.results[i].plain_score = None
            /\ resp.results[i].decoration_score = None
        /\ LET InCategories(p) == p.category \in Range(resp.categories)
           IN  IsPrefix(IdsOf(resp.results),
                        IdsOf(SelectSeq(locals.semantic_points, InCategories)))

\* a request without negations whose category filter removed the best match
\* and which returned a result
C4_Witness ==
    /\ Done
    /\ resp.negations = <<>>
    /\ Len(resp.results) >= 1
    /\ Len(locals.semantic_points) >= 2
    /\ resp.results[1].id # locals.semantic_points[1].id

\* C5: for top_k >= 0 the results are the first min(top_k, m) of the m
\* candidates left after stages 2 and 3, so total_results <= top_k and
\* total_results = len(results) = filter_stats.final_results.
C5_TruncatedToTopK ==
    (Done /\ req.top_k >= 0) =>
        LET m == Len(locals.filtered_points)
        IN  /\ Len(resp.results) = Min(req.top_k, m)
            /\ \A i \in 1..Len(resp.results) :
                /\ resp.results[i].id = locals.filtered_points[i].p.id
                /\ resp.results[i].plain_score = locals.filtered_points[i].plain
                /\ resp.results[i].decoration_score = locals.filtered_points[i].deco
            /\ resp.total_results <= req.top_k
            /\ resp.total_results = Len(resp.results)
            /\ resp.total_results = resp.filter_stats.final_results

\* more candidates were left than top_k asks for
C5_Witness ==
    /\ Done
    /\ req.top_k >= 1
    /\ Len(locals.filtered_points) > req.top_k
    /\ Len(resp.results) = req.top_k

\* C6: every result has a category of the resolved category set (the explicit
\* categories if given, else those extracted from the query); and when the
\* resolved set equals all known categories the category stage removes no
\* candidate, so category_filtered = semantic_matches.
C6_CategoryFilter ==
    Done =>
        /\ resp.categories = IF req.categories # <<>> THEN req.categories
                             ELSE extract_categories(categories, req.query)
        /\ \A i \in 1..Len(resp.results) :
            resp.results[i].category \in Range(resp.categories)
        /\ Range(resp.categories) = Range(categories) =>
            /\ locals.category_points = locals.semantic_points
            /\ resp.filter_stats.category_filtered = resp.filter_stats.semantic_matches

\* the category stage removed a candidate and let another through
C6_Witness ==
    /\ Done
    /\ Range(resp.categories) # Range(categories)
    /\ resp.filter_stats.semantic_matches > resp.filter_stats.category_filtered
    /\ Len(resp.results) >= 1

(***************************************************************************)
(* Properties of the query processor.                                      *)
(***************************************************************************)
Analysed == "negations" \in DOMAIN qa
AnalysedBefore == "negations" \in DOMAIN qaPrev

\* C7: no term returned by extract_negations equals a known category name,
\* whether it comes from the "no X" pattern or from the "without X" pattern.
C7_NegationsAreNotCategories ==
    Analysed => \A i \in 1..Len(qa.negations) : qa.negations[i] \notin Range(categories)

\* "no ring without necklace no stones": a category name follows "no" and
\* another follows "without", and only "stones" is extracted
C7_Witness ==
    /\ Analysed
    /\ categories = DefaultCategories
    /\ query = Phrase(<<W_no, W_ring, W_without, W_necklace, W_no, W_stones>>)
    /\ qa.negations = <<W_stones>>

\* C8 as stated: for any query that contains neither "no" nor "without",
\* negations is empty and enhanced_query is the lowercased query.
C8_AsStated ==
    (Analysed /\ ~Contains(query, W_no) /\ ~Contains(query, W_without)) =>
        /\ qa.negations = <<>>
        /\ qa.enhanced_query = Lower(query)

\* C8: for any query whose lowercased text contains neither "no" nor
\* "without", negations is empty and enhanced_query is the lowercased query.
C8_NoNegationWords ==
    (Analysed /\ ~Contains(Lower(query), W_no) /\ ~Contains(Lower(query), W_without)) =>
        /\ qa.negations = <<>>
        /\ qa.enhanced_query = Lower(query)

\* a query with upper-case letters and neither word, analysed
C8_Witness ==
    /\ Analysed
    /\ ~Contains(Lower(query), W_no)
    /\ ~Contains(Lower(query), W_without)
    /\ Len(Split(query)) >= 2
    /\ query # Lower(query)

\* C9: query rewriting is deterministic: for the same query and the same set
\* of extracted negation terms the enhanced query is the same string on every
\* run.
C9_RewriteDeterministic ==
    (Analysed /\ AnalysedBefore /\ Range(qa.negations) = Range(qaPrev.negations)) =>
        qa.enhanced_query = qaPrev.enhanced_query

\* the query is "<category> with no <neg>", neg a lower-case token that is not
\* a known category
IsFormQuery(c, n) ==
    /\ c \in Range(categories)
    /\ n \in NegWords
    /\ n = Lower(n)
    /\ n \notin Range(categories)
    /\ query = Phrase(<<c, W_with, W_no, n>>)

FormResult(c, n) ==
    /\ qa.negations = <<n>>
    /\ Range(qa.categories) = {c}
    /\ qa.enhanced_query = Phrase(<<c, W_with, W_plain, W_simple>>)

\* C10 as stated: for a query "<category> with no <neg>" and no explicit
\* categories, negations = {neg}, the resolved category set is {category} and
\* enhanced_query = "<category> with plain simple".
C10_AsStated ==
    Analysed => \A c \in Range(categories), n \in NegWords :
        IsFormQuery(c, n) => FormResult(c, n)

\* C10: with the known categories ring and necklace, for a query
\* "<category> with no <neg>" where neg is a lower-case token that is not a
\* known category, does not contain "without" and does not contain the name
\* of another known category, negations = {neg}, the resolved category set is
\* {category} and enhanced_query = "<category> with plain simple".
C10_FormQueryRewritten ==
    (Analysed /\ categories = DefaultCategories) =>
        \A c \in Range(categories), n \in NegWords :
            (/\ IsFormQuery(c, n)
             /\ ~Contains(n, W_without)
             /\ \A d \in Range(categories) \ {c} : ~Contains(n, d))
            => FormResult(c, n)

\* "ring with no diamonds", analysed
C10_Witness ==
    /\ Analysed
    /\ categories = DefaultCategories
    /\ query = Phrase(<<W_ring, W_with, W_no, W_diamonds>>)
    /\ qa.enhanced_query = Phrase(<<W_ring, W_with, W_plain, W_simple>>)

\* C18: during one search request whose query has negations, the probe-term
\* embeddings (decoration set and plain set together) are obtained with
\* exactly one call to the embedding provider.
C18_OneProbeEmbeddingCall ==
    (Done /\ resp.negations # <<>>) =>
        Cardinality({i \in 1..Len(embedLog) :
                        embedLog[i].arg \in {"decoration_terms", "plain_terms"}}) = 1

\* the known categories whose name is a substring of the lowercased query
MatchedCategories == {c \in Range(categories) : Contains(Lower(query), c)}

\* l lists elements of `of` in the order and multiplicity they have there
IsSubsequenceOf(l, of) ==
    \E keep \in SUBSET (1..Len(of)) :
        /\ Cardinality(keep) = Len(l)
        /\ \A k \in 1..Len(l) :
            \E i \in keep : Cardinality({j \in keep : j <= i}) = k /\ of[i] = l[k]

\* C19: extract_categories returns exactly the known categories whose name is
\* a substring of the lowercased query, and all known categories when none
\* matches; with a non-empty list of known categories the result is never
\* empty.
C19_ExtractCategories ==
    Analysed =>
        /\ MatchedCategories # {} =>
            /\ Range(qa.categories) = MatchedCategories
            /\ IsSubsequenceOf(qa.categories, categories)
        /\ MatchedCategories = {} => qa.categories = categories
        /\ categories # <<>> => qa.categories # <<>>

\* "Necklace no stones": only the category typed with a capital letter matches
C19_Witness ==
    /\ Analysed
    /\ categories = DefaultCategories
    /\ query # Lower(query)
    /\ ~Contains(query, W_necklace)
    /\ qa.categories = <<W_necklace>>

\* the tokens that directly follow a token "no" and are not known categories
TokensAfterNo ==
    LET words == Split(Lower(query))
    IN  {words[i + 1] : i \in {j \in 1..(Len(words) - 1) :
                                  words[j] = W_no /\ words[j + 1] \notin Range(categories)}}

\* the first token of the text after the substring "without", when there is
\* one and it is not a known category
TokenAfterWithout ==
    LET q == Lower(query)
        at == Find(q, W_without)
        rest == Split(SubSeq(q, at + Len(W_without), Len(q)))
    IN  IF at # 0 /\ rest # <<>> /\ rest[1] \notin Range(categories)
        THEN {rest[1]} ELSE {}

\* C20: extract_negations returns exactly the tokens that directly follow a
\* token "no" and are not known categories, plus, if the substring "without"
\* occurs, the first token after it when that token is not a known category;
\* a "no" that is the last token contributes nothing and duplicates are
\* collapsed.
C20_ExtractNegationsExactSet ==
    Analysed =>
        /\ Range(qa.negations) = TokensAfterNo \cup TokenAfterWithout
        /\ Cardinality(Range(qa.negations)) = Len(qa.negations)

(***************************************************************************)
(* Properties of the embedding cache and of build_index.                   *)
(***************************************************************************)
Built == "cached" \in DOMAIN buildLog

\* build_index ran after an earlier save_embeddings_cache had succeeded
BuiltAfterPut == Built /\ "embeddings" \in DOMAIN buildLog.put_before

\* C11: after save_embeddings_cache(V, paths) has succeeded,
\* load_embeddings_cache for the same model name and a path list with the
\* same elements and length len(V) returns a sequence equal to V.
C11_CacheRoundTrip ==
    (/\ BuiltAfterPut
     /\ buildLog.put_before.model_name = engine.model_name
     /\ Range(buildLog.put_before.image_paths) = Range(engine.image_paths)
     /\ Len(engine.image_paths) = Len(buildLog.put_before.embeddings))
    => buildLog.cached = Some(buildLog.put_before.embeddings)

\* the cache is hit with the paths listed in another order than when they
\* were saved
C11_Witness ==
    /\ BuiltAfterPut
    /\ Range(buildLog.put_before.image_paths) = Range(engine.image_paths)
    /\ buildLog.put_before.image_paths # engine.image_paths
    /\ buildLog.cached = Some(buildLog.put_before.embeddings)
    /\ Len(buildLog.put_before.embeddings) = 2

\* C12: if an entry was stored for n paths and the path list then has n+1
\* elements, the lookup returns no value (the key differs, and an entry whose
\* length differs from that of the current list is never returned);
\* build_index then recomputes all embeddings and stores a new entry under
\* the key of the n+1-element list.
C12_CacheMissOnGrowth ==
    /\ (Built /\ buildLog.cached # None) =>
            Len(buildLog.cached[1]) = Len(engine.image_paths)
    /\ (BuiltAfterPut
        /\ Len(engine.image_paths) = Len(buildLog.put_before.image_paths) + 1) =>
            LET key == get_cache_key(engine.model_name, engine.image_paths)
                recomputed == embed_images_batch(engine.image_paths)
            IN  /\ key # get_cache_key(engine.model_name, buildLog.put_before.image_paths)
                /\ buildLog.cached = None
                /\ buildLog.embedded = engine.image_paths
                /\ engine.image_embeddings = Some(recomputed)
                /\ buildLog.saved # None
                /\ buildLog.saved = Some("written") =>
                    /\ CacheFile(key) \in DOMAIN cacheFiles
                    /\ PickleLoad(cacheFiles[CacheFile(key)]) = Some(recomputed)

\* one image was saved, the dataset grew to two, and the new entry was written
C12_Witness ==
    /\ BuiltAfterPut
    /\ Len(buildLog.put_before.image_paths) = 1
    /\ Len(engine.image_paths) = 2
    /\ buildLog.cached = None
    /\ buildLog.saved = Some("written")
    /\ Cardinality(DOMAIN cacheFiles) >= 2

(***************************************************************************)
(* Properties of recommend() and of the HTTP endpoints.                    *)
(***************************************************************************)
\* a handler has answered, and it had obtained the engine
Answered(endpoint) ==
    /\ http # NoHttp
    /\ http.endpoint = endpoint
    /\ get_search_engine # None

ValidId(id) == id >= 0 /\ id < Len(index)

C14_InvalidIdRaisesValueError ==
    (Answered("recommend") /\ ~ValidId(http.arg[1])) =>
        /\ http.status = 500
        /\ http.body = [detail |-> "ValueError"]
        /\ "client.search" \notin Range(http.engine_ops)

\* C15: an id out of range is answered with 404 by /recommend, /product/{id}
\* and /image/{id}.
C15_OutOfRangeIdIsNotFound ==
    \A endpoint \in {"recommend", "product", "image"} :
        (Answered(endpoint) /\ ~ValidId(http.arg[1])) => http.status = 404

\* the engine is built: model loaded, images loaded, embeddings present and
\* every image indexed
EngineBuilt ==
    /\ engine.model
    /\ engine.total_images = Len(engine.image_paths)
    /\ Len(engine.image_categories) = Len(engine.image_paths)
    /\ engine.image_embeddings # None
    /\ Len(engine.image_embeddings[1]) = Len(engine.image_paths)
    /\ index = IndexPoints(engine.image_embeddings[1], engine.image_categories)

\* C16 as stated: until initialization has completed get_search_engine() is
\* None and every endpoint answers 503 without calling the engine.
C16_AsStated ==
    startupPc # "serving" =>
        /\ get_search_engine = None
        /\ http # NoHttp => (http.status = 503 /\ http.engine_ops = <<>>)

\* C16: until initialization has completed get_search_engine() is None and
\* every endpoint that obtains the engine (all but GET /) answers 503 without
\* calling the engine; the engine is published only when it is built.
C16_UnavailableUntilInitialized ==
    /\ startupPc # "serving" => get_search_engine = None
    /\ get_search_engine # None => EngineBuilt
    /\ (http # NoHttp /\ http.endpoint # "root") =>
           IF startupPc # "serving"
           THEN http.status = 503 /\ http.engine_ops = <<>>
           ELSE http.status # 503

C16_Witness ==
    /\ startupPc = "initialized"
    /\ index # <<>>
    /\ http # NoHttp
    /\ http.endpoint = "search"
    /\ http.status = 503

\* C17: once the engine is published no request changes the index, the
\* image lists, the embeddings, the cache directory or a field of the engine
\* and its handlers.
C17_RequestsMutateNothing ==
    [][startupPc = "serving" => UNCHANGED <<index, engine, cacheFiles, categories, search_engine>>]_vars

(***************************************************************************)
(* Properties of the cache key.                                            *)
(***************************************************************************)
CountOf(l, x) == Cardinality({i \in 1..Len(l) : l[i] = x})

SameMultiset(l, m) == \A x \in Range(l) \cup Range(m) : CountOf(l, x) = CountOf(m, x)

\* m is l with one path added
OneMore(l, m) ==
    \E x \in Range(m) :
        /\ CountOf(m, x) = CountOf(l, x) + 1
        /\ \A y \in (Range(l) \cup Range(m)) \ {x} : CountOf(l, y) = CountOf(m, y)

\* two calls of get_cache_key, one after the other
TwoKeys == "fn" \in DOMAIN call /\ call.fn = "get_cache_key" /\ call.before # NoCall

\* C21: two orderings of the same paths under the same model give the same
\* key; another model with the same paths, or the same model with a path
\* added or removed, gives another key.
C21_CacheKeyOfModelAndPaths ==
    TwoKeys =>
        LET a == call.before
            b == call
        IN  /\ (a.model_name = b.model_name /\ SameMultiset(a.image_paths, b.image_paths))
                   => a.key = b.key
            /\ (a.model_name # b.model_name /\ SameMultiset(a.image_paths, b.image_paths))
                   => a.key # b.key
            /\ (a.model_name = b.model_name
                /\ (OneMore(a.image_paths, b.image_paths) \/ OneMore(b.image_paths, a.image_paths)))
                   => a.key # b.key

C21_Witness ==
    /\ TwoKeys
    /\ call.before.model_name = call.model_name
    /\ call.before.image_paths # call.image_paths
    /\ SameMultiset(call.before.image_paths, call.image_paths)
    /\ call.before.key = call.key

(***************************************************************************)
(* Properties of build_index over a damaged cache.                         *)
(***************************************************************************)
\* the cache file build_index looked for, as it was before
EntryBefore ==
    LET f == CacheFile(get_cache_key(engine.model_name, engine.image_paths))
    IN  IF f \in DOMAIN buildLog.files_before THEN Some(buildLog.files_before[f]) ELSE None

\* that file was missing, unreadable, corrupt, or held another number of rows
EntryUnusable ==
    \/ EntryBefore = None
    \/ EntryBefore[1] = Unreadable
    \/ PickleLoad(EntryBefore[1]) = None
    \/ Len(PickleLoad(EntryBefore[1])[1]) # Len(engine.image_paths)

\* C22: a missing, unreadable, corrupt or wrong-count cache entry makes
\* load_embeddings_cache return no value; build_index then computes the
\* embeddings of all images; and whether or not the write of the cache
\* succeeds, build_index ends with every image indexed.
C22_NoCacheFailureIsFatal ==
    Built =>
        /\ EntryUnusable => buildLog.cached = None
        /\ buildLog.cached = None =>
            /\ buildLog.embedded = engine.image_paths
            /\ engine.image_embeddings = Some(embed_images_batch(engine.image_paths))
            /\ buildLog.saved # None
        /\ startupPc \in {"initialized", "serving"}
        /\ Len(index) = Len(engine.image_paths)
        /\ index = IndexPoints(engine.image_embeddings[1], engine.image_categories)

\* an entry with the wrong number of rows was found, the embeddings were
\* computed, the write failed, and both images are in the index
C22_Witness ==
    /\ Built
    /\ EntryBefore # None
    /\ EntryBefore[1] # Unreadable
    /\ PickleLoad(EntryBefore[1]) # None
    /\ Len(PickleLoad(EntryBefore[1])[1]) # Len(engine.image_paths)
    /\ buildLog.cached = None
    /\ buildLog.saved = Some("open_failed")
    /\ Len(index) = 2

(***************************************************************************)
(* Properties of search_by_image.                                          *)
(***************************************************************************)
\* search_by_image has run for an uploaded image and returned
ImageSearched ==
    /\ http # NoHttp
    /\ "locals" \in DOMAIN http
    /\ http.status = 200

\* C23: with a non-empty extracted text the text query is the detected type,
\* a space and the text, or the text alone when no type was detected; one
\* search is made, with the combination of the image vector and the
\* embedding of that query and without a filter; negations are empty and no
\* result has a plain or a decoration score.
C23_ImageWithTextIsHybrid ==
    (ImageSearched /\ http.locals.extracted_text # <<>>) =>
        LET text == http.locals.extracted_text
            detected_type == http.locals.detected_type
            body == http.body
        IN  /\ body.query = IF detected_type # None
                            THEN detected_type[1] \o SP \o text
                            ELSE text
            /\ CountOf(body.ops, "client.search") = 1
            /\ Len(body.searches) = 1
            /\ body.searches[1].query_vector =
                   [image |-> http.arg[1].vec, text |-> Some(embed_text(body.query))]
            /\ body.searches[1].query_filter = None
            /\ body.negations = <<>>
            /\ \A i \in 1..Len(body.results) :
                   /\ body.results[i].plain_score = None
                   /\ body.results[i].decoration_score = None

C23_Witness ==
    /\ ImageSearched
    /\ http.locals.extracted_text = W_gold
    /\ http.locals.detected_type = Some(W_necklace)
    /\ http.body.query = Phrase(<<W_necklace, W_gold>>)
    /\ Len(http.body.results) = 2
    /\ http.body.results[1].category # http.body.results[2].category

\* C24: with an empty extracted text one search is made, with the image
\* vector alone; it has a category filter exactly when a type was detected,
\* and then every result has the detected type.
C24_ImageWithoutTextIsFiltered ==
    (ImageSearched /\ http.locals.extracted_text = <<>>) =>
        LET detected_type == http.locals.detected_type
            body == http.body
        IN  /\ CountOf(body.ops, "client.search") = 1
            /\ Len(body.searches) = 1
            /\ body.searches[1].query_vector = [image |-> http.arg[1].vec, text |-> None]
            /\ body.searches[1].query_filter = detected_type
            /\ detected_type # None =>
                   \A i \in 1..Len(body.results) : body.results[i].category = detected_type[1]

\* a ring was detected, the index holds a ring and a necklace, and only the
\* ring is returned
C24_Witness ==
    /\ ImageSearched
    /\ http.locals.extracted_text = <<>>
    /\ http.locals.detected_type = Some(W_ring)
    /\ http.arg[3] = 2
    /\ Len(index) = 2
    /\ Len(http.body.results) = 1

(***************************************************************************)
(* Properties of the optional enrichment of an image search.               *)
(***************************************************************************)
\* POST /upload has been answered for a file that is an image and decodes,
\* by a process whose engine is published
UploadAnswered ==
    /\ http # NoHttp
    /\ http.endpoint = "upload"
    /\ StartsWith(http.arg[1].content_type, CT_ImagePrefix)
    /\ http.arg[1].decodes
    /\ http.status # 503

\* EasyOCR was asked for the text of the image
EasyOcrCalled ==
    \/ CountOf(http.body.ops, "easyocr.Reader") > 0
    \/ CountOf(http.body.ops, "readtext") > 0

\* C25: text extraction and type detection never fail an image search.  The
\* request is answered 200; the extracted text is the text of the vision
\* model when that is non-empty, and EasyOCR is then not called; when the
\* vision model is not configured, fails or finds nothing, EasyOCR is
\* called if it is installed, and the extracted text is what it read, or
\* empty when it is not installed or its reader cannot be made; a type
\* detection that raises leaves the detected type unset.
C25_EnrichmentNeverFails ==
    UploadAnswered =>
        /\ http.status = 200
        /\ "locals" \in DOMAIN http
        /\ LET l == http.locals
               image == http.arg[1]
           IN  /\ l.llm_text # <<>> =>
                      /\ l.extracted_text = l.llm_text
                      /\ ~EasyOcrCalled
               /\ l.llm_text = <<>> =>
                      /\ EasyOcrCalled <=> engine.ocr_available
                      /\ l.extracted_text =
                             IF CountOf(http.body.ops, "readtext") > 0
                             THEN image.text
                             ELSE <<>>
               /\ ~engine.openai_client => l.llm_text = <<>>
               /\ l.detection = "raised" => l.detected_type = None
               /\ Len(http.body.results) = http.body.total_results

\* the vision model found nothing on an image with text, EasyOCR read it,
\* the type detection raised, and the search returned two results
C25_Witness ==
    /\ UploadAnswered
    /\ http.status = 200
    /\ engine.openai_client
    /\ http.locals.llm_text = <<>>
    /\ http.locals.extracted_text = W_gold
    /\ CountOf(http.body.ops, "llm") = 1
    /\ CountOf(http.body.ops, "readtext") = 1
    /\ http.locals.detection = "raised"
    /\ http.locals.detected_type = None
    /\ http.body.total_results = 2

(***************************************************************************)
(* Properties of the type detection.                                       *)
(***************************************************************************)
\* detect_jewelry_type has been called and nothing in it raised
TypeDetected ==
    /\ call # NoCall
    /\ call.fn = "detect_jewelry_type"
    /\ call.detects

\* C26: the type detection returns a category exactly when the greatest
\* similarity is strictly greater than 0.25; the category is then the one
\* whose description has the greatest similarity, and it is one of the
\* known categories.
C26_TypeAboveThreshold ==
    TypeDetected =>
        LET best == Max(Range(call.similarities))
        IN  /\ call.result # None <=> best > TypeConfidence
            /\ call.result # None =>
                   /\ call.result[1] \in Range(categories)
                   /\ \E i \in 1..Len(type_queries) :
                          /\ call.similarities[i] = best
                          /\ type_queries[i] = <<"a", " ">> \o call.result[1]

\* the best similarity is exactly 0.25 and no type is returned
C26_Witness ==
    /\ TypeDetected
    /\ Max(Range(call.similarities)) = TypeConfidence
    /\ call.similarities[2] = TypeConfidence
    /\ call.result = None

\* just above the threshold the second type is returned
C26_WitnessAccepted ==
    /\ TypeDetected
    /\ call.similarities = <<0, TypeConfidence + 1>>
    /\ call.result = Some(W_necklace)

(***************************************************************************)
(* Properties of the built index.                                          *)
(***************************************************************************)
\* build_index has returned in the running process
IndexBuilt == startupPc \in {"initialized", "serving"}

\* C27: after build_index the point with id i has the embedding of the image
\* at image_paths[i] and the category image_categories[i], for every i, also
\* when the embeddings came from the cache.
C27_PointCarriesItsImage ==
    IndexBuilt =>
        /\ Len(index) = Len(engine.image_paths)
        /\ \A i \in 1..Len(index) :
               /\ index[i].vec = EmbedImageFile(engine.image_paths[i])
               /\ index[i].category = engine.image_categories[i]

\* C27, for an index built from computed embeddings: the point with id i has
\* the embedding of the image at image_paths[i].
C27_ComputedPointsCarryTheirImage ==
    (IndexBuilt /\ buildLog.cached = None) =>
        /\ Len(index) = Len(engine.image_paths)
        /\ \A i \in 1..Len(index) :
               /\ index[i].vec = EmbedImageFile(engine.image_paths[i])
               /\ index[i].category = engine.image_categories[i]

(***************************************************************************)
(* Properties of the engine after initialize().                            *)
(***************************************************************************)
\* initialize() has returned and the engine is published
Initialized == startupPc = "serving"

\* the lists of the engine and the index have one length
LengthsAgree ==
    LET n == Len(engine.image_paths)
    IN  /\ Len(engine.image_embeddings[1]) = n
        /\ Len(engine.image_categories) = n
        /\ engine.total_images = n
        /\ Len(index) = n

\* the range check of recommend lets the id pass
RecommendAccepts(image_id) == recommend(engine, index, image_id, 1).raised # "ValueError"

\* the range check of GET /product/{id} and GET /image/{id} lets the id pass
ProductAccepts(product_id) == ~(product_id < 0 \/ product_id >= Len(engine.image_paths))

Stage3Ran ==
    /\ call # NoCall
    /\ call.fn = "search"
    /\ call.locals.stage3_ran

\* the texts search() handed to the embedding provider as arg
TextsEmbeddedAs(arg) ==
    LET Is(c) == c.arg = arg
        made == SelectSeq(call.calls, Is)
    IN  List([i \in 1..Len(made) |-> made[i].text])

EmbeddingsOf(texts) == List([i \in 1..Len(texts) |-> embed_text(texts[i])])

\* C29: when stage 3 runs, the decoration terms and the plain terms are
\* those of the first resolved category and of no other, both lists are
\* non-empty, and every candidate that passed the category filter is scored
\* against these two lists, whatever its own category.
C29_ProbesOfFirstCategory ==
    Stage3Ran =>
        /\ call.modular.categories # <<>>
        /\ \A decoration_terms \in
                  {get_decoration_terms(call.modular.categories[1], call.modular.negations,
                                        hashSeed)},
              plain_terms \in {get_plain_terms(call.modular.categories[1])} :
              /\ decoration_terms # <<>>
              /\ plain_terms # <<>>
              /\ TextsEmbeddedAs("decoration_terms") = decoration_terms
              /\ TextsEmbeddedAs("plain_terms") = plain_terms
              /\ Len(call.locals.scored) = Len(call.locals.category_points)
              /\ \A decoration_embeddings \in {EmbeddingsOf(decoration_terms)},
                    plain_embeddings \in {EmbeddingsOf(plain_terms)} :
                    \A i \in 1..Len(call.locals.scored) :
                        /\ call.locals.scored[i].p = call.locals.category_points[i]
                        /\ call.locals.scored[i].deco =
                               MaxSim(decoration_embeddings,
                                      call.locals.category_points[i].vector)
                        /\ call.locals.scored[i].plain =
                               MaxSim(plain_embeddings,
                                      call.locals.category_points[i].vector)

\* two categories are resolved and a candidate of the second one is scored
C29_Witness ==
    /\ Stage3Ran
    /\ Len(call.modular.categories) = 2
    /\ \E i \in 1..Len(call.locals.scored) :
           call.locals.scored[i].p.category = call.modular.categories[2]

(***************************************************************************)
(* The two implementations of search and recommend.                        *)
(***************************************************************************)
\* C30: for one request over one index, JewelrySearchEngine.search returns
\* what search.search returns, and JewelrySearchEngine.recommend what
\* recommendations.recommend returns: the same negations, enhanced query,
\* categories, results in the same order with the same scores, the same
\* counts, and the same error for an id that is refused.
C30_MonolithEqualsModular ==
    (call # NoCall /\ call.fn \in {"search", "recommend"}) => call.monolith = call.modular

\* a search with a negation in which stage 3 kept a result
C30_Witness ==
    /\ call # NoCall
    /\ call.fn = "search"
    /\ call.modular.negations # <<>>
    /\ call.modular.filter_stats.category_filtered = 2
    /\ call.monolith.filter_stats.negation_filtered = 1
    /\ call.monolith.results[1].plain_score # None

\* a recommendation that returned another image than the queried one
C30_WitnessRecommend ==
    /\ call # NoCall
    /\ call.fn = "recommend"
    /\ call.monolith.raised = "none"
    /\ call.modular.total_results = 1

====
